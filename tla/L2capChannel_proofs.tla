------------------------ MODULE L2capChannel_proofs ------------------------
(***************************************************************************)
(* Proofs about an L2CAP channel: its queues stay within their bounds,     *)
(* whatever fails a runtime gets a gapless prefix of what its peer sent,   *)
(* the end of a task is reported, and nothing is lost while the link is up. *)
(*                                                                         *)
(* A direction of the channel is named after the side that receives.       *)
(***************************************************************************)
EXTENDS L2capChannel, TLAPS

WriterType == [state : {"idle", "writing", "failed", "done"}, holds : Nat]
ReaderType == [state : {"idle", "sending", "closing", "done"}, holds : Nat]

(* Every variable has a value for every side.                              *)
Shape ==
    /\ dispatched \in [Side -> Nat]
    /\ batch \in [Side -> Nat]
    /\ registered \in [Side -> BOOLEAN]
    /\ outbound \in [Side -> Seq(Nat)]
    /\ events \in [Side -> Seq(Nat)]
    /\ writer \in [Side -> WriterType]
    /\ reader \in [Side -> ReaderType]
    /\ wire \in [Side -> Seq(Nat)]
    /\ writeDead \in [Side -> BOOLEAN]
    /\ delivered \in [Side -> Seq(Nat)]
    /\ viaGatt \in [Side -> SUBSET Nat]

(* A task that moves a frame holds one.                                    *)
HoldsFrame ==
    \A s \in Side :
        /\ writer[s].state = "writing" => writer[s].holds # 0
        /\ reader[s].state = "sending" => reader[s].holds # 0

(* No queue, and not the wire, holds more than it has room for.            *)
WithinBounds ==
    \A s \in Side :
        /\ dispatched[s] + batch[s] <= Payloads[s]
        /\ Len(outbound[s]) <= OutboundCapacity
        /\ Len(events[s]) <= EventCapacity
        /\ Len(wire[s]) <= WireCapacity

Numbers(q, least, most) == \A i \in 1 .. Len(q) : least <= q[i] /\ q[i] <= most

(* Only payloads that were dispatched are under way.                       *)
OnlyDispatched ==
    \A s \in Side :
        /\ Numbers(outbound[s], 1, dispatched[s])
        /\ writer[s].holds <= dispatched[s]
        /\ Numbers(wire[s], 1, dispatched[s])
        /\ \A n \in viaGatt[s] : 1 <= n /\ n <= dispatched[s]
        /\ reader[s].holds <= dispatched[Peer[s]]
        /\ Numbers(events[s], 0, dispatched[Peer[s]])
        /\ Numbers(delivered[s], 1, dispatched[Peer[s]])

-----------------------------------------------------------------------------
(* The numbers of the frames between two runtimes *)

Consecutive(q, n) == \A i \in 1 .. Len(q) : q[i] = n + i

(* The runtime r will hand on every frame that is still to come.           *)
Live(r) == registered[r] /\ \A i \in 1 .. Len(events[r]) : events[r][i] # Closed

(* How many frames have come as far as the event queue, the reader task,   *)
(* the wire, the writer task and the outbound queue.                       *)
Evented(r) == Len(delivered[r]) + Len(events[r])
Read(r) == IF reader[r].state = "sending" THEN Evented(r) + 1 ELSE Evented(r)
Wired(r) == Read(r) + Len(wire[Peer[r]])
Written(r) == IF writer[Peer[r]].state = "writing" THEN Wired(r) + 1 ELSE Wired(r)
Queued(r) == Written(r) + Len(outbound[Peer[r]])

DeliveredNext(r) == Consecutive(delivered[r], 0)

EventsNext(r) ==
    registered[r] =>
        \A i \in 1 .. Len(events[r]) :
            (\A j \in 1 .. i : events[r][j] # Closed) => events[r][i] = Len(delivered[r]) + i

ReaderNext(r) ==
    Live(r) /\ reader[r].state = "sending" => reader[r].holds = Evented(r) + 1

WireNext(r) == Live(r) => Consecutive(wire[Peer[r]], Read(r))

WriterNext(r) ==
    Live(r) /\ writer[Peer[r]].state = "writing" => writer[Peer[r]].holds = Wired(r) + 1

(* A writer that has failed takes nothing more from the outbound queue.    *)
OutboundNext(r) ==
    Live(r) /\ writer[Peer[r]].state \in {"idle", "writing"} =>
        /\ Consecutive(outbound[Peer[r]], Written(r))
        /\ registered[Peer[r]] => dispatched[Peer[r]] = Queued(r)

(* The frames of a direction are numbered without a gap.                   *)
Gapless(r) ==
    /\ DeliveredNext(r)
    /\ EventsNext(r)
    /\ ReaderNext(r)
    /\ WireNext(r)
    /\ WriterNext(r)
    /\ OutboundNext(r)

(* What goes through the fallback was dispatched after everything that     *)
(* went into the channel.                                                  *)
GattAfter(r) ==
    /\ registered[Peer[r]] => viaGatt[Peer[r]] = {}
    /\ \A n \in viaGatt[Peer[r]] :
          /\ Len(delivered[r]) < n
          /\ \A i \in 1 .. Len(events[r]) : events[r][i] < n
          /\ reader[r].holds < n
          /\ \A i \in 1 .. Len(wire[Peer[r]]) : wire[Peer[r]][i] < n
          /\ writer[Peer[r]].holds < n
          /\ \A i \in 1 .. Len(outbound[Peer[r]]) : outbound[Peer[r]][i] < n

TypeInv == Shape /\ HoldsFrame /\ WithinBounds /\ OnlyDispatched
OrderInv == \A r \in Side : Gapless(r) /\ GattAfter(r)

-----------------------------------------------------------------------------
(* Sequences and constants *)

(* The capacities are positive numbers.                                    *)
LEMMA Capacities ==
    /\ OutboundCapacity \in Nat /\ OutboundCapacity > 0
    /\ EventCapacity \in Nat /\ EventCapacity > 0
    /\ WireCapacity \in Nat /\ WireCapacity > 0
  <1>1. /\ OutboundCapacity \in Nat \ {0}
        /\ EventCapacity \in Nat \ {0}
        /\ WireCapacity \in Nat \ {0}
    BY L2capAssumption
  <1>2. QED
    BY <1>1

(* Peer pairs the sides.                                                   *)
LEMMA Pairs ==
    ASSUME NEW s \in Side
    PROVE  /\ Peer[s] \in Side /\ Peer[s] # s /\ Peer[Peer[s]] = s
           /\ Payloads[s] \in Nat
  BY L2capAssumption

(* Counting a frame that moves on from one place to the next.              *)
LEMMA Sums ==
    \A m, n \in Nat : /\ m + n \in Nat
                      /\ m + (n + 1) = (m + 1) + n
                      /\ (m + 1) + (n - 1) = m + n
                      /\ (m + n) + 1 = m + (n + 1)
  OBVIOUS

(* A sequence of numbers between two bounds, stated as TypeOK states it.   *)
LEMMA InRange ==
    ASSUME NEW q \in Seq(Nat), NEW S, \A i \in 1 .. Len(q) : q[i] \in S
    PROVE  q \in Seq(S)
  OBVIOUS

(* What is in a queue after an element was added or taken.                 *)
LEMMA QueueOps ==
    ASSUME NEW q \in Seq(Nat), NEW n \in Nat
    PROVE  /\ Append(q, n) \in Seq(Nat)
           /\ Len(Append(q, n)) = Len(q) + 1
           /\ \A i \in 1 .. Len(q) : Append(q, n)[i] = q[i]
           /\ Append(q, n)[Len(q) + 1] = n
           /\ q # <<>> => /\ Head(q) \in Nat /\ Head(q) = q[1]
                          /\ Tail(q) \in Seq(Nat)
                          /\ Len(q) > 0
                          /\ Len(Tail(q)) = Len(q) - 1
                          /\ \A i \in 1 .. Len(q) - 1 : Tail(q)[i] = q[i + 1]
  OBVIOUS

(* Adding a number in range to a queue, or taking one, keeps it in range,  *)
(* and so does raising the bound.                                          *)
LEMMA NumbersKept ==
    ASSUME NEW q \in Seq(Nat), NEW least \in Nat, NEW most \in Nat,
           Numbers(q, least, most)
    PROVE  /\ \A n \in Nat : least <= n /\ n <= most => Numbers(Append(q, n), least, most)
           /\ q # <<>> => /\ least <= Head(q) /\ Head(q) <= most
                          /\ Numbers(Tail(q), least, most)
           /\ Numbers(q, least, most + 1)
           /\ Numbers(Append(q, most + 1), least, most + 1) \/ least > most + 1
  <1>1. \A i \in 1 .. Len(q) : q[i] \in Nat /\ least <= q[i] /\ q[i] <= most
    BY DEF Numbers
  <1>2. ASSUME NEW n \in Nat, NEW m \in Nat, least <= n, n <= m, most <= m
        PROVE  Numbers(Append(q, n), least, m)
    <2>1. SUFFICES ASSUME NEW i \in 1 .. Len(Append(q, n))
                   PROVE  least <= Append(q, n)[i] /\ Append(q, n)[i] <= m
      BY DEF Numbers
    <2>2. CASE i \in 1 .. Len(q)
      BY <1>1, <1>2, <2>2, QueueOps
    <2>3. CASE i = Len(q) + 1
      BY <1>2, <2>3, QueueOps
    <2>4. QED
      BY <2>2, <2>3, QueueOps
  <1>3. ASSUME q # <<>>
        PROVE  least <= Head(q) /\ Head(q) <= most /\ Numbers(Tail(q), least, most)
    BY <1>1, <1>3, QueueOps DEF Numbers
  <1>4. Numbers(q, least, most + 1)
    BY <1>1 DEF Numbers
  <1>5. \A n \in Nat : least <= n /\ n <= most => Numbers(Append(q, n), least, most)
    BY <1>2
  <1>6. Numbers(Append(q, most + 1), least, most + 1) \/ least > most + 1
    BY <1>2
  <1>7. QED
    BY <1>3, <1>4, <1>5, <1>6

(* So does a queue that takes a number within them.                        *)
LEMMA NumbersAppended ==
    ASSUME NEW q, NEW least, NEW most, NEW n,
           q \in Seq(Nat), least \in Nat, most \in Nat, n \in Nat,
           Numbers(q, least, most), least <= n, n <= most
    PROVE  /\ Append(q, n) \in Seq(Nat)
           /\ Len(Append(q, n)) = Len(q) + 1
           /\ Numbers(Append(q, n), least, most)
  <1>1. Append(q, n) \in Seq(Nat) /\ Len(Append(q, n)) = Len(q) + 1
    BY QueueOps
  <1>2. Numbers(Append(q, n), least, most)
    BY NumbersKept
  <1>3. QED
    BY <1>1, <1>2

-----------------------------------------------------------------------------
(* Types and bounds *)

(* The flat invariant says what TypeOK says.                               *)
LEMMA TypeInvImpliesTypeOK == TypeInv => TypeOK
  <1>1. SUFFICES ASSUME TypeInv, NEW s \in Side
                 PROVE  /\ dispatched[s] \in Nat
                        /\ dispatched[s] + batch[s] \in 0 .. Payloads[s]
                        /\ registered[s] \in BOOLEAN
                        /\ outbound[s] \in Seq(1 .. dispatched[s])
                        /\ Len(outbound[s]) <= OutboundCapacity
                        /\ events[s] \in Seq((1 .. dispatched[Peer[s]]) \cup {Closed})
                        /\ Len(events[s]) <= EventCapacity
                        /\ writer[s] \in [state : {"idle", "writing", "failed", "done"},
                                          holds : (1 .. dispatched[s]) \cup {0}]
                        /\ reader[s] \in [state : {"idle", "sending", "closing", "done"},
                                          holds : (1 .. dispatched[Peer[s]]) \cup {0}]
                        /\ wire[s] \in Seq(1 .. dispatched[s])
                        /\ Len(wire[s]) <= WireCapacity
                        /\ writeDead[s] \in BOOLEAN
                        /\ delivered[s] \in Seq(1 .. dispatched[Peer[s]])
                        /\ viaGatt[s] \subseteq 1 .. dispatched[s]
    BY DEF TypeOK
  <1>2. /\ Peer[s] \in Side /\ Payloads[s] \in Nat
        /\ dispatched[s] \in Nat /\ dispatched[Peer[s]] \in Nat /\ batch[s] \in Nat
        /\ registered[s] \in BOOLEAN /\ writeDead[s] \in BOOLEAN
        /\ outbound[s] \in Seq(Nat) /\ events[s] \in Seq(Nat) /\ wire[s] \in Seq(Nat)
        /\ delivered[s] \in Seq(Nat) /\ viaGatt[s] \subseteq Nat
        /\ writer[s] \in WriterType /\ reader[s] \in ReaderType
    BY <1>1, Pairs DEF TypeInv, Shape
  <1>3. /\ dispatched[s] + batch[s] \in 0 .. Payloads[s]
        /\ Len(outbound[s]) <= OutboundCapacity
        /\ Len(events[s]) <= EventCapacity
        /\ Len(wire[s]) <= WireCapacity
    BY <1>1, <1>2 DEF TypeInv, WithinBounds
  <1>4. ASSUME NEW q \in Seq(Nat), NEW most \in Nat
        PROVE  /\ Numbers(q, 1, most) => q \in Seq(1 .. most)
               /\ Numbers(q, 0, most) => q \in Seq((1 .. most) \cup {Closed})
    <2>1. \A i \in 1 .. Len(q) : q[i] \in Nat
      OBVIOUS
    <2>2. Numbers(q, 1, most) => \A i \in 1 .. Len(q) : q[i] \in 1 .. most
      BY <2>1 DEF Numbers
    <2>3. Numbers(q, 0, most) => \A i \in 1 .. Len(q) : q[i] \in (1 .. most) \cup {Closed}
      BY <2>1 DEF Numbers, Closed
    <2>4. QED
      BY <2>2, <2>3, InRange
  <1>5. /\ outbound[s] \in Seq(1 .. dispatched[s])
        /\ wire[s] \in Seq(1 .. dispatched[s])
        /\ events[s] \in Seq((1 .. dispatched[Peer[s]]) \cup {Closed})
        /\ delivered[s] \in Seq(1 .. dispatched[Peer[s]])
    BY <1>1, <1>2, <1>4 DEF TypeInv, OnlyDispatched
  <1>6. /\ writer[s] \in [state : {"idle", "writing", "failed", "done"},
                          holds : (1 .. dispatched[s]) \cup {0}]
        /\ reader[s] \in [state : {"idle", "sending", "closing", "done"},
                          holds : (1 .. dispatched[Peer[s]]) \cup {0}]
    BY <1>1, <1>2 DEF TypeInv, OnlyDispatched, WriterType, ReaderType
  <1>7. viaGatt[s] \subseteq 1 .. dispatched[s]
    BY <1>1, <1>2 DEF TypeInv, OnlyDispatched
  <1>8. QED
    BY <1>2, <1>3, <1>5, <1>6, <1>7

(* The invariant holds initially.                                          *)
LEMMA InitTypeInv == Init => TypeInv
  <1>1. SUFFICES ASSUME Init PROVE TypeInv
    OBVIOUS
  <1>2. Shape
    BY <1>1 DEF Init, Shape, At, WriterType, ReaderType
  <1>3. HoldsFrame
    BY <1>1 DEF Init, HoldsFrame, At
  <1>4. ASSUME NEW s \in Side
        PROVE  /\ dispatched[s] = 0 /\ batch[s] = 0 /\ viaGatt[s] = {}
               /\ outbound[s] = <<>> /\ events[s] = <<>> /\ wire[s] = <<>>
               /\ delivered[s] = <<>>
               /\ writer[s].holds = 0 /\ reader[s].holds = 0
    BY <1>1 DEF Init, At
  <1>5. WithinBounds
    <2>1. SUFFICES ASSUME NEW s \in Side
                   PROVE  /\ dispatched[s] + batch[s] <= Payloads[s]
                          /\ Len(outbound[s]) <= OutboundCapacity
                          /\ Len(events[s]) <= EventCapacity
                          /\ Len(wire[s]) <= WireCapacity
      BY DEF WithinBounds
    <2>2. Len(outbound[s]) = 0 /\ Len(events[s]) = 0 /\ Len(wire[s]) = 0
      BY <1>4
    <2>3. Payloads[s] \in Nat
      BY Pairs
    <2>4. QED
      BY <1>4, <2>2, <2>3, Capacities
  <1>6. OnlyDispatched
    <2>1. Numbers(<<>>, 0, 0) /\ Numbers(<<>>, 1, 0)
      BY DEF Numbers
    <2>2. ASSUME NEW s \in Side
          PROVE  /\ Numbers(outbound[s], 1, dispatched[s])
                 /\ writer[s].holds <= dispatched[s]
                 /\ Numbers(wire[s], 1, dispatched[s])
                 /\ \A n \in viaGatt[s] : 1 <= n /\ n <= dispatched[s]
                 /\ reader[s].holds <= dispatched[Peer[s]]
                 /\ Numbers(events[s], 0, dispatched[Peer[s]])
                 /\ Numbers(delivered[s], 1, dispatched[Peer[s]])
      <3>1. Peer[s] \in Side
        BY Pairs
      <3>2. dispatched[Peer[s]] = 0
        BY <1>4, <3>1
      <3>3. QED
        BY <1>4, <2>1, <3>2
    <2>3. QED
      BY <2>2 DEF OnlyDispatched
  <1>7. QED
    BY <1>2, <1>3, <1>5, <1>6 DEF TypeInv

(* What the invariant says of one side.                                    *)
LEMMA OfSide ==
    ASSUME TypeInv, NEW s \in Side
    PROVE  /\ Peer[s] \in Side /\ Payloads[s] \in Nat
           /\ dispatched[s] \in Nat /\ dispatched[Peer[s]] \in Nat /\ batch[s] \in Nat
           /\ registered[s] \in BOOLEAN
           /\ outbound[s] \in Seq(Nat) /\ events[s] \in Seq(Nat)
           /\ wire[s] \in Seq(Nat) /\ delivered[s] \in Seq(Nat)
           /\ writer[s] \in WriterType /\ writer[s].holds \in Nat
           /\ reader[s] \in ReaderType /\ reader[s].holds \in Nat
           /\ viaGatt[s] \in SUBSET Nat
  BY Pairs DEF TypeInv, Shape, WriterType, ReaderType

(* Starting a batch dispatches nothing yet.                                *)
LEMMA DispatchOutboundBatchTypes ==
    ASSUME TypeInv, NEW s \in Side, DispatchOutboundBatch(s)
    PROVE  TypeInv'
  <1>0. PICK k \in 1 .. Payloads[s] - dispatched[s] : batch' = [batch EXCEPT ![s] = k]
    BY DEF DispatchOutboundBatch
  <1>1. Shape'
    <2>1. k \in Nat
      BY OfSide
    <2>2. batch' \in [Side -> Nat]
      BY <1>0, <2>1 DEF TypeInv, Shape
    <2>3. QED
      BY <2>2 DEF TypeInv, Shape, DispatchOutboundBatch
  <1>2. HoldsFrame'
    BY OfSide, QueueOps DEF TypeInv, Shape, OnlyDispatched, Numbers, HoldsFrame,
       DispatchOutboundBatch, runtime, At, WriterType, ReaderType
  <1>3. WithinBounds'
    <2>1. k \in Nat /\ dispatched[s] + k <= Payloads[s]
      BY OfSide
    <2>2. batch'[s] = k /\ \A t \in Side : t # s => batch'[t] = batch[t]
      BY <1>0 DEF TypeInv, Shape
    <2>3. ASSUME NEW t \in Side
          PROVE  dispatched[t] + batch'[t] <= Payloads[t]
      <3>1. CASE t = s
        BY <3>1, <2>1, <2>2
      <3>2. CASE t # s
        BY <3>2, <2>2 DEF TypeInv, WithinBounds
      <3>3. QED
        BY <3>1, <3>2
    <2>4. QED
      BY <2>3 DEF TypeInv, WithinBounds, DispatchOutboundBatch
  <1>4. OnlyDispatched'
    BY OfSide, QueueOps, NumbersKept DEF TypeInv, Shape, HoldsFrame, OnlyDispatched,
       DispatchOutboundBatch, runtime, At, WriterType, ReaderType, Closed
  <1>5. QED
    BY <1>1, <1>2, <1>3, <1>4 DEF TypeInv

(* A payload gets the next number, in the queue or in the fallback.        *)
LEMMA SendViaSessionTypes ==
    ASSUME TypeInv, NEW s \in Side, SendViaSession(s)
    PROVE  TypeInv'
  <1>0. /\ dispatched' = [dispatched EXCEPT ![s] = dispatched[s] + 1]
        /\ batch[s] > 0 /\ batch' = [batch EXCEPT ![s] = batch[s] - 1]
        /\ \/ UNCHANGED outbound
           \/ /\ outbound' = [outbound EXCEPT ![s] = Append(outbound[s], dispatched[s] + 1)]
              /\ Len(outbound[s]) < OutboundCapacity
        /\ \/ UNCHANGED viaGatt
           \/ viaGatt' = [viaGatt EXCEPT ![s] = viaGatt[s] \cup {dispatched[s] + 1}]
    BY DEF SendViaSession
  <1>a. dispatched[s] \in Nat /\ batch[s] \in Nat /\ outbound[s] \in Seq(Nat) /\ viaGatt[s] \in SUBSET Nat
    BY OfSide
  <1>b. /\ Append(outbound[s], dispatched[s] + 1) \in Seq(Nat)
        /\ Len(Append(outbound[s], dispatched[s] + 1)) = Len(outbound[s]) + 1
        /\ viaGatt[s] \cup {dispatched[s] + 1} \in SUBSET Nat
    BY <1>a
  <1>1. Shape'
    <2>1. dispatched' \in [Side -> Nat] /\ batch' \in [Side -> Nat]
      BY <1>0, <1>a DEF TypeInv, Shape
    <2>2. outbound' \in [Side -> Seq(Nat)]
      BY <1>0, <1>b DEF TypeInv, Shape
    <2>3. registered' \in [Side -> BOOLEAN]
      BY OfSide DEF TypeInv, Shape, SendViaSession
    <2>4. viaGatt' \in [Side -> SUBSET Nat]
      BY <1>0, <1>b DEF TypeInv, Shape
    <2>5. QED
      BY <2>1, <2>2, <2>3, <2>4 DEF TypeInv, Shape, SendViaSession
  <1>2. HoldsFrame'
    BY OfSide, QueueOps DEF TypeInv, Shape, OnlyDispatched, Numbers, HoldsFrame, SendViaSession,
       runtime, At, WriterType, ReaderType
  <1>3. WithinBounds'
    <2>a. /\ dispatched'[s] = dispatched[s] + 1 /\ batch'[s] = batch[s] - 1
          /\ \A t \in Side : t # s => dispatched'[t] = dispatched[t] /\ batch'[t] = batch[t]
      BY <1>0 DEF TypeInv, Shape
    <2>b. /\ \/ outbound'[s] = outbound[s]
             \/ /\ outbound'[s] = Append(outbound[s], dispatched[s] + 1)
                /\ Len(outbound[s]) < OutboundCapacity
          /\ \A t \in Side : t # s => outbound'[t] = outbound[t]
      BY <1>0 DEF TypeInv, Shape
    <2>c. Payloads[s] \in Nat /\ Len(outbound[s]) \in Nat /\ Len(outbound[s]) <= OutboundCapacity /\ dispatched[s] + batch[s] <= Payloads[s]
      BY <1>a, OfSide DEF TypeInv, WithinBounds
    <2>1. ASSUME NEW t \in Side
          PROVE  dispatched'[t] + batch'[t] <= Payloads[t]
      <3>1. CASE t = s
        BY <3>1, <1>a, <2>a, <2>c
      <3>2. CASE t # s
        BY <3>2, <2>a DEF TypeInv, WithinBounds
      <3>3. QED
        BY <3>1, <3>2
    <2>2. ASSUME NEW t \in Side
          PROVE  Len(outbound'[t]) <= OutboundCapacity
      <3>1. CASE t = s
        BY <3>1, <1>b, <2>b, <2>c, Capacities
      <3>2. CASE t # s
        BY <3>2, <2>b DEF TypeInv, WithinBounds
      <3>3. QED
        BY <3>1, <3>2
    <2>3. QED
      BY <2>1, <2>2 DEF TypeInv, WithinBounds, SendViaSession
  <1>4. OnlyDispatched'
    <2>1. /\ dispatched' = [dispatched EXCEPT ![s] = dispatched[s] + 1]
          /\ UNCHANGED <<wire, writer, reader, events, delivered>>
          /\ \A t \in Side : t # s => outbound'[t] = outbound[t] /\ viaGatt'[t] = viaGatt[t]
          /\ outbound'[s] = outbound[s] \/ outbound'[s] = Append(outbound[s], dispatched[s] + 1)
          /\ viaGatt'[s] = viaGatt[s] \/ viaGatt'[s] = viaGatt[s] \cup {dispatched[s] + 1}
      BY DEF TypeInv, Shape, SendViaSession
    <2>2. \A t \in Side : dispatched'[t] = dispatched[t] \/ dispatched'[t] = dispatched[t] + 1
      BY <2>1, OfSide DEF TypeInv, Shape
    <2>3. ASSUME NEW q \in Seq(Nat), NEW t \in Side, NEW least \in {0, 1},
                 Numbers(q, least, dispatched[t])
          PROVE  Numbers(q, least, dispatched'[t])
      <3>1. dispatched[t] \in Nat /\ least \in Nat
        BY OfSide
      <3>2. Numbers(q, least, dispatched[t] + 1)
        BY <2>3, <3>1, NumbersKept
      <3>3. QED
        BY <2>2, <2>3, <3>2
    <2>4. ASSUME NEW t \in Side
          PROVE  /\ Numbers(wire'[t], 1, dispatched'[t])
                 /\ Numbers(events'[t], 0, dispatched'[Peer[t]])
                 /\ Numbers(delivered'[t], 1, dispatched'[Peer[t]])
      BY <2>1, <2>3, OfSide DEF TypeInv, OnlyDispatched
    <2>5. ASSUME NEW t \in Side
          PROVE  writer'[t].holds <= dispatched'[t] /\ reader'[t].holds <= dispatched'[Peer[t]]
      <3>1. /\ writer[t].holds <= dispatched[t] /\ reader[t].holds <= dispatched[Peer[t]]
            /\ writer[t].holds \in Nat /\ dispatched[t] \in Nat
            /\ reader[t].holds \in Nat /\ dispatched[Peer[t]] \in Nat
            /\ Peer[t] \in Side
        BY OfSide DEF TypeInv, OnlyDispatched
      <3>2. QED
        BY <2>1, <2>2, <3>1
    <2>6. ASSUME NEW t \in Side
          PROVE  Numbers(outbound'[t], 1, dispatched'[t])
      <3>1. outbound[t] \in Seq(Nat) /\ Numbers(outbound[t], 1, dispatched[t]) /\ dispatched[t] \in Nat
        BY OfSide DEF TypeInv, OnlyDispatched
      <3>2. Numbers(outbound[t], 1, dispatched'[t])
        BY <2>3, <3>1
      <3>3. Numbers(Append(outbound[t], dispatched[t] + 1), 1, dispatched[t] + 1)
        BY <3>1, NumbersKept
      <3>4. t = s => dispatched'[t] = dispatched[t] + 1
        BY <2>1 DEF TypeInv, Shape
      <3>5. QED
        BY <2>1, <3>2, <3>3, <3>4
    <2>7. ASSUME NEW t \in Side
          PROVE  \A n \in viaGatt'[t] : 1 <= n /\ n <= dispatched'[t]
      <3>1. /\ dispatched[t] \in Nat /\ viaGatt[t] \in SUBSET Nat
            /\ \A n \in viaGatt[t] : 1 <= n /\ n <= dispatched[t]
        BY OfSide DEF TypeInv, OnlyDispatched
      <3>2. t = s => dispatched'[t] = dispatched[t] + 1
        BY <2>1 DEF TypeInv, Shape
      <3>3. QED
        BY <2>1, <2>2, <3>1, <3>2
    <2>8. QED
      BY <2>4, <2>5, <2>6, <2>7 DEF OnlyDispatched
  <1>5. QED
    BY <1>1, <1>2, <1>3, <1>4 DEF TypeInv

(* An event leaves its queue, a frame for the delivered ones.              *)
LEMMA HandleL2capRuntimeEventTypes ==
    ASSUME TypeInv, NEW s \in Side, HandleL2capRuntimeEvent(s)
    PROVE  TypeInv'
  <1>0. /\ Head(events[s]) \in Nat /\ Tail(events[s]) \in Seq(Nat)
        /\ Len(Tail(events[s])) <= Len(events[s])
        /\ Head(events[s]) <= dispatched[Peer[s]]
        /\ Numbers(Tail(events[s]), 0, dispatched[Peer[s]])
        /\ Head(events[s]) # Closed => Numbers(Append(delivered[s], Head(events[s])), 1, dispatched[Peer[s]])
        /\ Append(delivered[s], Head(events[s])) \in Seq(Nat)
    <2>1. /\ events[s] \in Seq(Nat) /\ events[s] # <<>> /\ dispatched[Peer[s]] \in Nat
          /\ Numbers(events[s], 0, dispatched[Peer[s]])
          /\ delivered[s] \in Seq(Nat) /\ Numbers(delivered[s], 1, dispatched[Peer[s]])
      BY OfSide DEF TypeInv, OnlyDispatched, HandleL2capRuntimeEvent
    <2>2. /\ Head(events[s]) \in Nat /\ Tail(events[s]) \in Seq(Nat)
          /\ Len(Tail(events[s])) <= Len(events[s])
      BY <2>1
    <2>3. Head(events[s]) <= dispatched[Peer[s]] /\ Numbers(Tail(events[s]), 0, dispatched[Peer[s]])
      BY <2>1, NumbersKept
    <2>4. Head(events[s]) # 0 => Numbers(Append(delivered[s], Head(events[s])), 1, dispatched[Peer[s]])
      <3>1. SUFFICES ASSUME Head(events[s]) # 0
                     PROVE  Numbers(Append(delivered[s], Head(events[s])), 1, dispatched[Peer[s]])
        OBVIOUS
      <3>2. 1 \in Nat /\ 1 <= Head(events[s])
        BY <2>2, <3>1
      <3>3. QED
        BY <2>1, <2>2, <2>3, <3>2, NumbersAppended
    <2>5. Append(delivered[s], Head(events[s])) \in Seq(Nat)
      BY <2>1, <2>2
    <2>6. QED
      BY <2>2, <2>3, <2>4, <2>5 DEF Closed
  <1>1. Shape'
    BY <1>0, OfSide, QueueOps DEF TypeInv, Shape, HandleL2capRuntimeEvent, runtime, At,
       WriterType, ReaderType, Closed
  <1>2. HoldsFrame'
    BY <1>0, OfSide, QueueOps DEF TypeInv, Shape, OnlyDispatched, Numbers, HoldsFrame,
       HandleL2capRuntimeEvent, runtime, At, WriterType, ReaderType
  <1>3. WithinBounds'
    BY <1>0, OfSide, Capacities, QueueOps DEF TypeInv, Shape, WithinBounds,
       HandleL2capRuntimeEvent, EventQueueFull, runtime
  <1>4. OnlyDispatched'
    BY <1>0, OfSide DEF TypeInv, Shape, OnlyDispatched, HandleL2capRuntimeEvent
  <1>5. QED
    BY <1>1, <1>2, <1>3, <1>4 DEF TypeInv

(* The writer takes the head of the outbound queue.                        *)
LEMMA WriterTakesTypes ==
    ASSUME TypeInv, NEW s \in Side, WriterTakes(s)
    PROVE  TypeInv'
  <1>0. /\ outbound[s] \in Seq(Nat) /\ outbound[s] # <<>>
        /\ Head(outbound[s]) \in Nat /\ Tail(outbound[s]) \in Seq(Nat)
        /\ Len(Tail(outbound[s])) <= Len(outbound[s])
        /\ Head(outbound[s]) \in 1 .. dispatched[s] /\ Numbers(Tail(outbound[s]), 1, dispatched[s])
    <2>1. /\ outbound[s] \in Seq(Nat) /\ outbound[s] # <<>> /\ dispatched[s] \in Nat
          /\ Numbers(outbound[s], 1, dispatched[s])
      BY OfSide DEF TypeInv, OnlyDispatched, WriterTakes
    <2>2. /\ Head(outbound[s]) \in Nat /\ Tail(outbound[s]) \in Seq(Nat)
          /\ Len(Tail(outbound[s])) <= Len(outbound[s])
      BY <2>1
    <2>3. 1 <= Head(outbound[s]) /\ Head(outbound[s]) <= dispatched[s] /\ Numbers(Tail(outbound[s]), 1, dispatched[s])
      BY <2>1, NumbersKept
    <2>4. QED
      BY <2>1, <2>2, <2>3
  <1>1. Shape'
    BY <1>0 DEF TypeInv, Shape, WriterTakes, runtime, At, WriterType
  <1>2. HoldsFrame'
    <2>1. /\ writer'[s].holds = Head(outbound[s])
          /\ \A t \in Side : t # s => writer'[t] = writer[t]
          /\ reader' = reader
      BY DEF TypeInv, Shape, WriterTakes, At
    <2>2. Head(outbound[s]) # 0
      BY <1>0, OfSide
    <2>3. QED
      BY <2>1, <2>2 DEF TypeInv, HoldsFrame
  <1>3. WithinBounds'
    <2>1. \A t \in Side : Len(outbound'[t]) <= OutboundCapacity
      BY <1>0, OfSide, Capacities DEF TypeInv, Shape, WithinBounds, WriterTakes
    <2>2. QED
      BY <2>1 DEF TypeInv, WithinBounds, WriterTakes, runtime
  <1>4. OnlyDispatched'
    <2>1. /\ writer'[s].holds = Head(outbound[s]) /\ outbound'[s] = Tail(outbound[s])
          /\ \A t \in Side : t # s => writer'[t] = writer[t] /\ outbound'[t] = outbound[t]
          /\ UNCHANGED <<runtime, events, reader, wire>>
      BY DEF TypeInv, Shape, WriterTakes, At
    <2>2. ASSUME NEW t \in Side
          PROVE  writer'[t].holds <= dispatched[t] /\ Numbers(outbound'[t], 1, dispatched[t])
      <3>1. CASE t = s
        BY <3>1, <1>0, <2>1, OfSide
      <3>2. CASE t # s
        BY <3>2, <2>1 DEF TypeInv, OnlyDispatched
      <3>3. QED
        BY <3>1, <3>2
    <2>3. QED
      BY <2>1, <2>2 DEF TypeInv, OnlyDispatched, runtime
  <1>5. QED
    BY <1>1, <1>2, <1>3, <1>4 DEF TypeInv

(* The writer puts its frame on the wire, or loses it and fails.           *)
LEMMA WriterWritesTypes ==
    ASSUME TypeInv, NEW s \in Side, WriterWrites(s)
    PROVE  TypeInv'
  <1>0. /\ writer[s].holds \in Nat /\ writer[s].holds # 0 /\ writer[s].holds <= dispatched[s]
        /\ wire[s] \in Seq(Nat) /\ dispatched[s] \in Nat /\ Numbers(wire[s], 1, dispatched[s])
    BY OfSide DEF TypeInv, HoldsFrame, OnlyDispatched, WriterWrites
  <1>a. /\ Append(wire[s], writer[s].holds) \in Seq(Nat)
        /\ Len(Append(wire[s], writer[s].holds)) = Len(wire[s]) + 1
        /\ Numbers(Append(wire[s], writer[s].holds), 1, dispatched[s])
    <2>1. 1 <= writer[s].holds
      BY <1>0
    <2>2. Numbers(Append(wire[s], writer[s].holds), 1, dispatched[s])
      BY <1>0, <2>1, NumbersKept
    <2>3. QED
      BY <1>0, <2>2
  <1>c. /\ writer'[s].holds = 0 /\ writer'[s] \in WriterType /\ writer'[s].state # "writing"
        /\ \A t \in Side : t # s => writer'[t] = writer[t] /\ wire'[t] = wire[t]
        /\ \/ wire'[s] = wire[s]
           \/ wire'[s] = Append(wire[s], writer[s].holds) /\ Len(wire[s]) < WireCapacity
        /\ UNCHANGED <<runtime, outbound, events, reader, writeDead>>
    <2>1. CASE writer' = [writer EXCEPT ![s] = At("failed", 0)] /\ UNCHANGED wire
      BY <2>1 DEF TypeInv, Shape, WriterWrites, At, WriterType
    <2>2. CASE /\ writer' = [writer EXCEPT ![s] = At("idle", 0)]
               /\ wire' = [wire EXCEPT ![s] = Append(wire[s], writer[s].holds)]
               /\ Len(wire[s]) < WireCapacity
      BY <2>2 DEF TypeInv, Shape, WriterWrites, At, WriterType
    <2>3. QED
      BY <2>1, <2>2 DEF WriterWrites
  <1>b. /\ wire' = wire \/ (wire' = [wire EXCEPT ![s] = Append(wire[s], writer[s].holds)]
                             /\ Len(wire[s]) < WireCapacity)
        /\ writer' = [writer EXCEPT ![s] = At("idle", 0)] \/ writer' = [writer EXCEPT ![s] = At("failed", 0)]
        /\ UNCHANGED <<runtime, outbound, events, reader, writeDead>>
    BY DEF WriterWrites
  <1>1. Shape'
    <2>1. writer' \in [Side -> WriterType]
      <3>1. \A t \in Side : writer'[t] \in WriterType
        BY <1>c DEF TypeInv, Shape
      <3>2. writer' = [t \in Side |-> writer'[t]]
        BY <1>b DEF TypeInv, Shape
      <3>3. QED
        BY <3>1, <3>2
    <2>2. wire' \in [Side -> Seq(Nat)]
      BY <1>a, <1>b DEF TypeInv, Shape
    <2>3. QED
      BY <1>b, <2>1, <2>2 DEF TypeInv, Shape, runtime
  <1>2. HoldsFrame'
    BY <1>c DEF TypeInv, HoldsFrame
  <1>3. WithinBounds'
    <2>1. ASSUME NEW t \in Side
          PROVE  Len(wire'[t]) <= WireCapacity
      <3>1. CASE t = s
        BY <3>1, <1>0, <1>a, <1>c, Capacities DEF TypeInv, WithinBounds
      <3>2. CASE t # s
        BY <3>2, <1>c DEF TypeInv, WithinBounds
      <3>3. QED
        BY <3>1, <3>2
    <2>2. QED
      BY <1>b, <2>1 DEF TypeInv, WithinBounds, runtime
  <1>4. OnlyDispatched'
    <2>1. \A t \in Side : Numbers(wire'[t], 1, dispatched[t])
      BY <1>a, <1>b DEF TypeInv, Shape, OnlyDispatched
    <2>2. \A t \in Side : writer'[t].holds <= dispatched[t]
      BY <1>0, <1>c DEF TypeInv, OnlyDispatched
    <2>3. QED
      BY <1>b, <2>1, <2>2 DEF TypeInv, OnlyDispatched, runtime
  <1>5. QED
    BY <1>1, <1>2, <1>3, <1>4 DEF TypeInv

(* The writer ends, with a closure in the event queue if there is room.    *)
LEMMA WriterEndsTypes ==
    ASSUME TypeInv, NEW s \in Side, WriterEnds(s)
    PROVE  TypeInv'
  <1>a. /\ events[s] \in Seq(Nat) /\ dispatched[Peer[s]] \in Nat
        /\ Numbers(events[s], 0, dispatched[Peer[s]])
    BY OfSide DEF TypeInv, OnlyDispatched
  <1>b. /\ Append(events[s], Closed) \in Seq(Nat)
        /\ Len(Append(events[s], Closed)) = Len(events[s]) + 1
        /\ Numbers(Append(events[s], Closed), 0, dispatched[Peer[s]])
    <2>1. 0 \in Nat /\ 0 <= 0 /\ 0 <= dispatched[Peer[s]]
      BY <1>a
    <2>2. QED
      BY <1>a, <2>1, NumbersAppended DEF Closed
  <1>c. /\ \/ events' = events
           \/ events' = [events EXCEPT ![s] = Append(events[s], Closed)] /\ Len(events[s]) < EventCapacity
        /\ writer' = [writer EXCEPT ![s] = At("done", 0)]
        /\ UNCHANGED <<runtime, outbound, reader, wire, writeDead>>
    BY <1>a, Capacities DEF WriterEnds, EventQueueFull
  <1>1. Shape'
    BY <1>b, <1>c DEF TypeInv, Shape, runtime, At, WriterType
  <1>2. HoldsFrame'
    BY <1>c DEF TypeInv, Shape, HoldsFrame, At
  <1>3. WithinBounds'
    <2>a. /\ \/ events'[s] = events[s]
             \/ events'[s] = Append(events[s], Closed) /\ Len(events[s]) < EventCapacity
          /\ \A t \in Side : t # s => events'[t] = events[t]
      BY <1>c DEF TypeInv, Shape
    <2>b. Len(events[s]) \in Nat /\ Len(events[s]) <= EventCapacity
      BY <1>a DEF TypeInv, WithinBounds
    <2>1. ASSUME NEW t \in Side
          PROVE  Len(events'[t]) <= EventCapacity
      <3>1. CASE t = s
        BY <3>1, <1>b, <2>a, <2>b, Capacities
      <3>2. CASE t # s
        BY <3>2, <2>a DEF TypeInv, WithinBounds
      <3>3. QED
        BY <3>1, <3>2
    <2>2. QED
      BY <1>c, <2>1 DEF TypeInv, WithinBounds, runtime
  <1>4. OnlyDispatched'
    <2>1. \A t \in Side : Numbers(events'[t], 0, dispatched[Peer[t]])
      BY <1>b, <1>c DEF TypeInv, Shape, OnlyDispatched
    <2>2. \A t \in Side : writer'[t].holds <= dispatched[t]
      BY <1>c, OfSide DEF TypeInv, Shape, OnlyDispatched, At
    <2>3. QED
      BY <1>c, <2>1, <2>2 DEF TypeInv, OnlyDispatched, runtime
  <1>5. QED
    BY <1>1, <1>2, <1>3, <1>4 DEF TypeInv

(* The reader takes the head of the wire.                                  *)
LEMMA ReaderTakesTypes ==
    ASSUME TypeInv, NEW s \in Side, ReaderTakes(s)
    PROVE  TypeInv'
  <1>0. PICK p \in Side : p = Peer[s] /\ Peer[p] = s /\ p # s
    BY Pairs
  <1>a. /\ wire[p] \in Seq(Nat) /\ wire[p] # <<>>
        /\ Head(wire[p]) \in Nat /\ Tail(wire[p]) \in Seq(Nat)
        /\ Len(Tail(wire[p])) <= Len(wire[p])
        /\ Head(wire[p]) \in 1 .. dispatched[p] /\ Numbers(Tail(wire[p]), 1, dispatched[p])
    <2>1. /\ wire[p] \in Seq(Nat) /\ wire[p] # <<>> /\ dispatched[p] \in Nat
          /\ Numbers(wire[p], 1, dispatched[p])
      BY <1>0, OfSide DEF TypeInv, OnlyDispatched, ReaderTakes
    <2>2. /\ Head(wire[p]) \in Nat /\ Tail(wire[p]) \in Seq(Nat)
          /\ Len(Tail(wire[p])) <= Len(wire[p])
      BY <2>1
    <2>3. 1 <= Head(wire[p]) /\ Head(wire[p]) <= dispatched[p] /\ Numbers(Tail(wire[p]), 1, dispatched[p])
      BY <2>1, NumbersKept
    <2>4. QED
      BY <2>1, <2>2, <2>3
  <1>b. /\ reader' = [reader EXCEPT ![s] = At("sending", Head(wire[p]))]
        /\ wire' = [wire EXCEPT ![p] = Tail(wire[p])]
        /\ UNCHANGED <<runtime, outbound, events, writer, writeDead>>
    BY <1>0 DEF ReaderTakes
  <1>c. /\ reader'[s].holds = Head(wire[p]) /\ wire'[p] = Tail(wire[p])
        /\ \A t \in Side : t # s => reader'[t] = reader[t]
        /\ \A t \in Side : t # p => wire'[t] = wire[t]
    BY <1>b DEF TypeInv, Shape, At
  <1>1. Shape'
    BY <1>a, <1>b DEF TypeInv, Shape, runtime, At, ReaderType
  <1>2. HoldsFrame'
    <2>1. Head(wire[p]) # 0
      BY <1>a, OfSide
    <2>2. QED
      BY <1>b, <1>c, <2>1 DEF TypeInv, HoldsFrame
  <1>3. WithinBounds'
    <2>a. Len(Tail(wire[p])) \in Nat /\ Len(wire[p]) \in Nat /\ Len(wire[p]) <= WireCapacity
      BY <1>a DEF TypeInv, WithinBounds
    <2>1. ASSUME NEW t \in Side
          PROVE  Len(wire'[t]) <= WireCapacity
      <3>1. CASE t = p
        BY <3>1, <1>a, <1>c, <2>a, Capacities
      <3>2. CASE t # p
        BY <3>2, <1>c DEF TypeInv, WithinBounds
      <3>3. QED
        BY <3>1, <3>2
    <2>2. QED
      BY <1>b, <2>1 DEF TypeInv, WithinBounds, runtime
  <1>4. OnlyDispatched'
    <2>1. \A t \in Side : Numbers(wire'[t], 1, dispatched[t])
      BY <1>a, <1>b DEF TypeInv, Shape, OnlyDispatched
    <2>2. ASSUME NEW t \in Side
          PROVE  reader'[t].holds <= dispatched[Peer[t]]
      <3>1. CASE t = s
        BY <3>1, <1>0, <1>a, <1>c, OfSide
      <3>2. CASE t # s
        BY <3>2, <1>c DEF TypeInv, OnlyDispatched
      <3>3. QED
        BY <3>1, <3>2
    <2>3. QED
      BY <1>b, <2>1, <2>2 DEF TypeInv, OnlyDispatched, runtime
  <1>5. QED
    BY <1>1, <1>2, <1>3, <1>4 DEF TypeInv

(* The reader puts its frame in the event queue if there is room.          *)
LEMMA ReaderForwardsTypes ==
    ASSUME TypeInv, NEW s \in Side, ReaderForwards(s)
    PROVE  TypeInv'
  <1>0. reader[s].holds \in Nat /\ reader[s].holds <= dispatched[Peer[s]]
    BY OfSide DEF TypeInv, OnlyDispatched
  <1>a. /\ events[s] \in Seq(Nat) /\ dispatched[Peer[s]] \in Nat
        /\ Numbers(events[s], 0, dispatched[Peer[s]])
    BY OfSide DEF TypeInv, OnlyDispatched
  <1>b. /\ Append(events[s], reader[s].holds) \in Seq(Nat)
        /\ Len(Append(events[s], reader[s].holds)) = Len(events[s]) + 1
        /\ Numbers(Append(events[s], reader[s].holds), 0, dispatched[Peer[s]])
    <2>1. Numbers(Append(events[s], reader[s].holds), 0, dispatched[Peer[s]])
      BY <1>a, NumbersKept, <1>0
    <2>2. QED
      BY <1>a, <1>0, <2>1
  <1>c. /\ events' = [events EXCEPT ![s] = Append(events[s], reader[s].holds)] /\ Len(events[s]) < EventCapacity
        /\ reader' = [reader EXCEPT ![s] = At("idle", 0)]
        /\ UNCHANGED <<runtime, outbound, writer, wire, writeDead>>
    BY <1>a, Capacities DEF ReaderForwards, EventQueueFull
  <1>1. Shape'
    BY <1>b, <1>c DEF TypeInv, Shape, runtime, At, ReaderType
  <1>2. HoldsFrame'
    BY <1>c DEF TypeInv, Shape, HoldsFrame, At
  <1>3. WithinBounds'
    <2>1. \A t \in Side : Len(events'[t]) <= EventCapacity
      BY <1>a, <1>b, <1>c, Capacities DEF TypeInv, Shape, WithinBounds
    <2>2. QED
      BY <1>c, <2>1 DEF TypeInv, WithinBounds, runtime
  <1>4. OnlyDispatched'
    <2>1. \A t \in Side : Numbers(events'[t], 0, dispatched[Peer[t]])
      BY <1>b, <1>c DEF TypeInv, Shape, OnlyDispatched
    <2>a. reader'[s].holds = 0 /\ \A t \in Side : t # s => reader'[t] = reader[t]
      BY <1>c DEF TypeInv, Shape, At
    <2>2. ASSUME NEW t \in Side
          PROVE  reader'[t].holds <= dispatched[Peer[t]]
      <3>1. CASE t = s
        BY <3>1, <1>a, <2>a
      <3>2. CASE t # s
        BY <3>2, <2>a DEF TypeInv, OnlyDispatched
      <3>3. QED
        BY <3>1, <3>2
    <2>3. QED
      BY <1>c, <2>1, <2>2 DEF TypeInv, OnlyDispatched, runtime
  <1>5. QED
    BY <1>1, <1>2, <1>3, <1>4 DEF TypeInv

(* A reader that sees the end holds no frame.                              *)
LEMMA ReaderSeesEndTypes ==
    ASSUME TypeInv, NEW s \in Side, ReaderSeesEnd(s)
    PROVE  TypeInv'
  <1>0. /\ reader' = [reader EXCEPT ![s] = At("closing", 0)]
        /\ UNCHANGED <<runtime, outbound, events, writer, wire, writeDead>>
    BY DEF ReaderSeesEnd
  <1>a. /\ reader'[s].holds = 0 /\ reader'[s].state # "sending"
        /\ \A t \in Side : t # s => reader'[t] = reader[t]
    BY <1>0 DEF TypeInv, Shape, At
  <1>1. Shape'
    BY <1>0 DEF TypeInv, Shape, runtime, At, ReaderType
  <1>2. HoldsFrame'
    BY <1>0, <1>a DEF TypeInv, HoldsFrame
  <1>3. WithinBounds'
    BY <1>0 DEF TypeInv, WithinBounds, runtime
  <1>4. OnlyDispatched'
    <2>1. ASSUME NEW t \in Side
          PROVE  reader'[t].holds <= dispatched[Peer[t]]
      <3>1. CASE t = s
        BY <3>1, <1>a, OfSide
      <3>2. CASE t # s
        BY <3>2, <1>a DEF TypeInv, OnlyDispatched
      <3>3. QED
        BY <3>1, <3>2
    <2>2. QED
      BY <1>0, <2>1 DEF TypeInv, OnlyDispatched, runtime
  <1>5. QED
    BY <1>1, <1>2, <1>3, <1>4 DEF TypeInv

(* The reader ends, with a closure in the event queue if there is room.    *)
LEMMA ReaderEndsTypes ==
    ASSUME TypeInv, NEW s \in Side, ReaderEnds(s)
    PROVE  TypeInv'
  <1>a. /\ events[s] \in Seq(Nat) /\ dispatched[Peer[s]] \in Nat
        /\ Numbers(events[s], 0, dispatched[Peer[s]])
    BY OfSide DEF TypeInv, OnlyDispatched
  <1>b. /\ Append(events[s], Closed) \in Seq(Nat)
        /\ Len(Append(events[s], Closed)) = Len(events[s]) + 1
        /\ Numbers(Append(events[s], Closed), 0, dispatched[Peer[s]])
    <2>1. 0 \in Nat /\ 0 <= 0 /\ 0 <= dispatched[Peer[s]]
      BY <1>a
    <2>2. QED
      BY <1>a, <2>1, NumbersAppended DEF Closed
  <1>c. /\ events' = [events EXCEPT ![s] = Append(events[s], Closed)] /\ Len(events[s]) < EventCapacity
        /\ reader' = [reader EXCEPT ![s] = At("done", 0)]
        /\ UNCHANGED <<runtime, outbound, writer, wire, writeDead>>
    BY <1>a, Capacities DEF ReaderEnds, EventQueueFull
  <1>1. Shape'
    BY <1>b, <1>c DEF TypeInv, Shape, runtime, At, ReaderType
  <1>2. HoldsFrame'
    BY <1>c DEF TypeInv, Shape, HoldsFrame, At
  <1>3. WithinBounds'
    <2>1. \A t \in Side : Len(events'[t]) <= EventCapacity
      BY <1>a, <1>b, <1>c, Capacities DEF TypeInv, Shape, WithinBounds
    <2>2. QED
      BY <1>c, <2>1 DEF TypeInv, WithinBounds, runtime
  <1>4. OnlyDispatched'
    <2>1. \A t \in Side : Numbers(events'[t], 0, dispatched[Peer[t]])
      BY <1>b, <1>c DEF TypeInv, Shape, OnlyDispatched
    <2>2. ASSUME NEW t \in Side PROVE reader'[t].holds <= dispatched[Peer[t]]
      <3>1. CASE t = s
        BY <1>a, <1>c, <3>1 DEF TypeInv, Shape, At
      <3>2. CASE t # s
        BY <1>c, <3>2 DEF TypeInv, Shape, OnlyDispatched
      <3>3. QED
        BY <3>1, <3>2
    <2>3. QED
      BY <1>c, <2>1, <2>2 DEF TypeInv, OnlyDispatched, runtime
  <1>5. QED
    BY <1>1, <1>2, <1>3, <1>4 DEF TypeInv

(* A dying link moves no frame.                                            *)
LEMMA WriteDiesTypes ==
    ASSUME TypeInv, NEW s \in Side, WriteDies(s)
    PROVE  TypeInv'
  <1>1. Shape'
    BY OfSide, QueueOps DEF TypeInv, Shape, WriteDies, runtime, At, WriterType, ReaderType, Closed
  <1>2. HoldsFrame'
    BY OfSide, QueueOps DEF TypeInv, Shape, OnlyDispatched, Numbers, HoldsFrame, WriteDies,
       runtime, At, WriterType, ReaderType
  <1>3. WithinBounds'
    BY OfSide, Capacities, QueueOps DEF TypeInv, Shape, WithinBounds, WriteDies, EventQueueFull,
       runtime
  <1>4. OnlyDispatched'
    BY OfSide, QueueOps, NumbersKept DEF TypeInv, Shape, HoldsFrame, OnlyDispatched, WriteDies,
       runtime, At, WriterType, ReaderType, Closed
  <1>5. QED
    BY <1>1, <1>2, <1>3, <1>4 DEF TypeInv
-----------------------------------------------------------------------------
(* The order of the frames *)

(* What a direction of the channel depends on, and its types.              *)
LEMMA OfDirection ==
    ASSUME TypeInv, NEW r \in Side, NEW p \in Side, p = Peer[r]
    PROVE  /\ p # r /\ Peer[p] = r
           /\ dispatched[p] \in Nat
           /\ delivered[r] \in Seq(Nat) /\ Len(delivered[r]) \in Nat
           /\ events[r] \in Seq(Nat) /\ Len(events[r]) \in Nat
           /\ reader[r].holds \in Nat
           /\ wire[p] \in Seq(Nat) /\ Len(wire[p]) \in Nat
           /\ writer[p].holds \in Nat
           /\ outbound[p] \in Seq(Nat) /\ Len(outbound[p]) \in Nat
           /\ viaGatt[p] \in SUBSET Nat
  BY OfSide, Pairs

(* The counts of a direction are numbers, each at least the one before.    *)
LEMMA Counts ==
    ASSUME TypeInv, NEW r \in Side
    PROVE  /\ Evented(r) \in Nat /\ Read(r) \in Nat /\ Wired(r) \in Nat
           /\ Written(r) \in Nat /\ Queued(r) \in Nat
  <1>1. PICK p \in Side : p = Peer[r]
    BY Pairs
  <1>2. /\ Len(delivered[r]) \in Nat /\ Len(events[r]) \in Nat /\ Len(wire[p]) \in Nat
        /\ Len(outbound[p]) \in Nat
    BY <1>1, OfDirection
  <1>3. Evented(r) \in Nat
    BY <1>2, Sums, Zenon DEF Evented
  <1>4. Read(r) \in Nat
    BY <1>3 DEF Read
  <1>5. Wired(r) \in Nat
    BY <1>1, <1>2, <1>4 DEF Wired
  <1>6. Written(r) \in Nat
    BY <1>5 DEF Written
  <1>7. Queued(r) \in Nat
    BY <1>1, <1>2, <1>6 DEF Queued
  <1>8. QED
    BY <1>3, <1>4, <1>5, <1>6, <1>7

(* A step that moves none of a direction's frames keeps them in order,     *)
(* even if it takes one of the runtimes off the channel.                   *)
LEMMA Untouched ==
    ASSUME TypeInv, NEW r \in Side, NEW p \in Side, p = Peer[r],
           Gapless(r), GattAfter(r),
           delivered'[r] = delivered[r], events'[r] = events[r], reader'[r] = reader[r],
           wire'[p] = wire[p], writer'[p] = writer[p], outbound'[p] = outbound[p],
           dispatched'[p] = dispatched[p], viaGatt'[p] = viaGatt[p],
           registered'[r] => registered[r], registered'[p] => registered[p]
    PROVE  Gapless(r)' /\ GattAfter(r)'
  <1>1. /\ Evented(r)' = Evented(r) /\ Read(r)' = Read(r) /\ Wired(r)' = Wired(r)
        /\ Written(r)' = Written(r) /\ Queued(r)' = Queued(r)
        /\ Live(r)' => Live(r)
    BY DEF Evented, Read, Wired, Written, Queued, Live
  <1>2. DeliveredNext(r)' /\ EventsNext(r)'
    BY DEF Gapless, DeliveredNext, EventsNext, Consecutive
  <1>3. ReaderNext(r)' /\ WireNext(r)' /\ WriterNext(r)' /\ OutboundNext(r)'
    BY <1>1 DEF Gapless, ReaderNext, WireNext, WriterNext, OutboundNext, Consecutive
  <1>4. GattAfter(r)'
    BY DEF GattAfter
  <1>5. QED
    BY <1>2, <1>3, <1>4 DEF Gapless

(* A payload goes to the end of what is under way, or to the fallback with *)
(* a number above all that is under way.                                   *)
LEMMA SendViaSessionOrder ==
    ASSUME TypeInv, NEW r \in Side, NEW p \in Side, p = Peer[r],
           Gapless(r), GattAfter(r), SendViaSession(p)
    PROVE  Gapless(r)' /\ GattAfter(r)'
  <1>1. /\ p # r /\ dispatched[p] \in Nat /\ outbound[p] \in Seq(Nat) /\ Len(outbound[p]) \in Nat
        /\ Len(delivered[r]) \in Nat /\ delivered[r] \in Seq(Nat)
    BY OfDirection
  <1>2. /\ delivered'[r] = delivered[r] /\ events'[r] = events[r] /\ reader'[r] = reader[r]
        /\ wire'[p] = wire[p] /\ writer'[p] = writer[p]
        /\ dispatched'[p] = dispatched[p] + 1
        /\ registered'[r] = registered[r]
    BY <1>1 DEF TypeInv, Shape, SendViaSession
  <1>3. /\ Evented(r)' = Evented(r) /\ Read(r)' = Read(r) /\ Wired(r)' = Wired(r)
        /\ Written(r)' = Written(r) /\ Live(r)' = Live(r)
    BY <1>2 DEF Evented, Read, Wired, Written, Live
  <1>4. DeliveredNext(r)' /\ EventsNext(r)' /\ ReaderNext(r)' /\ WireNext(r)' /\ WriterNext(r)'
    BY <1>2, <1>3 DEF Gapless, DeliveredNext, EventsNext, ReaderNext, WireNext, WriterNext,
       Consecutive
  <1>5. CASE /\ registered[p]
             /\ registered'[p] = registered[p] /\ viaGatt'[p] = viaGatt[p]
             /\ outbound'[p] = Append(outbound[p], dispatched[p] + 1)
    <2>1. GattAfter(r)'
      BY <1>5 DEF GattAfter
    <2>2. OutboundNext(r)'
      <3>1. SUFFICES ASSUME Live(r)', writer'[p].state \in {"idle", "writing"}
                     PROVE  /\ Consecutive(outbound'[p], Written(r)')
                            /\ dispatched'[p] = Queued(r)'
        BY DEF OutboundNext
      <3>2. Consecutive(outbound[p], Written(r)) /\ dispatched[p] = Written(r) + Len(outbound[p])
        BY <1>2, <1>3, <1>5, <3>1 DEF Gapless, OutboundNext, Queued
      <3>3. Written(r) \in Nat
        BY Counts
      <3>4. Len(outbound'[p]) = Len(outbound[p]) + 1
        BY <1>1, <1>5
      <3>5. Queued(r)' = dispatched[p] + 1
        BY <1>1, <1>3, <3>2, <3>3, <3>4 DEF Queued
      <3>6. ASSUME NEW i \in 1 .. Len(outbound'[p])
            PROVE  outbound'[p][i] = Written(r) + i
        <4>1. CASE i = Len(outbound[p]) + 1
          BY <1>1, <1>5, <3>2, <3>3, <4>1
        <4>2. CASE i \in 1 .. Len(outbound[p])
          BY <1>1, <1>5, <3>2, <4>2 DEF Consecutive
        <4>3. QED
          BY <1>1, <3>4, <4>1, <4>2
      <3>7. QED
        BY <1>2, <1>3, <3>5, <3>6 DEF Consecutive
    <2>3. QED
      BY <1>4, <2>1, <2>2 DEF Gapless
  <1>6. CASE /\ registered'[p] = FALSE /\ outbound'[p] = outbound[p]
             /\ viaGatt'[p] = viaGatt[p] \cup {dispatched[p] + 1}
    <2>1. OutboundNext(r)'
      BY <1>2, <1>3, <1>6 DEF Gapless, OutboundNext
    <2>2. Len(delivered[r]) <= dispatched[p]
      <3>1. CASE Len(delivered[r]) = 0
        BY <1>1, <3>1
      <3>2. CASE Len(delivered[r]) # 0
        <4>1. delivered[r][Len(delivered[r])] = Len(delivered[r])
          BY <1>1, <3>2 DEF Gapless, DeliveredNext, Consecutive
        <4>2. delivered[r][Len(delivered[r])] <= dispatched[p]
          BY <1>1, <3>2 DEF TypeInv, OnlyDispatched, Numbers
        <4>3. QED
          BY <4>1, <4>2
      <3>3. QED
        BY <3>1, <3>2
    <2>3. /\ reader[r].holds <= dispatched[p] /\ writer[p].holds <= dispatched[p]
          /\ \A i \in 1 .. Len(events[r]) : events[r][i] <= dispatched[p]
          /\ \A i \in 1 .. Len(wire[p]) : wire[p][i] <= dispatched[p]
          /\ \A i \in 1 .. Len(outbound[p]) : outbound[p][i] <= dispatched[p]
      BY DEF TypeInv, OnlyDispatched, Numbers
    <2>4. /\ reader[r].holds \in Nat /\ writer[p].holds \in Nat
          /\ \A i \in 1 .. Len(events[r]) : events[r][i] \in Nat
          /\ \A i \in 1 .. Len(wire[p]) : wire[p][i] \in Nat
          /\ \A i \in 1 .. Len(outbound[p]) : outbound[p][i] \in Nat
      <3>1. ASSUME NEW q \in Seq(Nat) PROVE \A i \in 1 .. Len(q) : q[i] \in Nat
        OBVIOUS
      <3>2. QED
        BY <3>1, OfDirection
    <2>5. ASSUME NEW n \in viaGatt'[p]
          PROVE  /\ Len(delivered[r]) < n
                 /\ \A i \in 1 .. Len(events[r]) : events[r][i] < n
                 /\ reader[r].holds < n
                 /\ \A i \in 1 .. Len(wire[p]) : wire[p][i] < n
                 /\ writer[p].holds < n
                 /\ \A i \in 1 .. Len(outbound[p]) : outbound[p][i] < n
      <3>1. CASE n \in viaGatt[p]
        BY <3>1 DEF GattAfter
      <3>2. CASE n = dispatched[p] + 1
        <4>1. ASSUME NEW m \in Nat, m <= dispatched[p] PROVE m < n
          BY <1>1, <3>2, <4>1
        <4>2. Len(delivered[r]) < n /\ reader[r].holds < n /\ writer[p].holds < n
          BY <1>1, <2>2, <2>3, <2>4, <4>1
        <4>3. /\ \A i \in 1 .. Len(events[r]) : events[r][i] < n
              /\ \A i \in 1 .. Len(wire[p]) : wire[p][i] < n
              /\ \A i \in 1 .. Len(outbound[p]) : outbound[p][i] < n
          BY <2>3, <2>4, <4>1
        <4>4. QED
          BY <4>2, <4>3
      <3>3. QED
        BY <1>6, <3>1, <3>2
    <2>6. GattAfter(r)'
      BY <1>2, <1>6, <2>5 DEF GattAfter
    <2>7. QED
      BY <1>4, <2>1, <2>6 DEF Gapless
  <1>7. QED
    BY <1>5, <1>6 DEF TypeInv, Shape, SendViaSession

(* The head of the event queue is the next frame to deliver.               *)
LEMMA HandleL2capRuntimeEventOrder ==
    ASSUME TypeInv, NEW r \in Side, NEW p \in Side, p = Peer[r],
           Gapless(r), GattAfter(r), HandleL2capRuntimeEvent(r)
    PROVE  Gapless(r)' /\ GattAfter(r)'
  <1> DEFINE event == Head(events[r])
  <1>1. /\ events[r] \in Seq(Nat) /\ events[r] # <<>> /\ Len(events[r]) \in Nat
        /\ delivered[r] \in Seq(Nat) /\ Len(delivered[r]) \in Nat
    BY OfDirection DEF HandleL2capRuntimeEvent
  <1>2. /\ events'[r] = Tail(events[r])
        /\ reader'[r] = reader[r] /\ wire'[p] = wire[p] /\ writer'[p] = writer[p]
        /\ outbound'[p] = outbound[p] /\ dispatched'[p] = dispatched[p]
        /\ viaGatt'[p] = viaGatt[p]
        /\ registered'[r] = (registered[r] /\ event # Closed)
        /\ registered'[p] = registered[p]
        /\ delivered'[r] = IF registered[r] /\ event # Closed THEN Append(delivered[r], event)
                           ELSE delivered[r]
    BY OfDirection DEF TypeInv, Shape, HandleL2capRuntimeEvent
  <1>3. /\ event = events[r][1] /\ event \in Nat
        /\ Len(events[r]) > 0 /\ Len(events'[r]) = Len(events[r]) - 1
        /\ \A i \in 1 .. Len(events'[r]) : events'[r][i] = events[r][i + 1]
    BY <1>1, <1>2
  <1>4. CASE registered[r] /\ event # Closed
    <2>1. event = Len(delivered[r]) + 1
      <3>1. 1 \in 1 .. Len(events[r]) /\ \A j \in 1 .. 1 : events[r][j] # Closed
        BY <1>1, <1>3, <1>4
      <3>2. events[r][1] = Len(delivered[r]) + 1
        BY <1>4, <3>1 DEF Gapless, EventsNext
      <3>3. QED
        BY <1>3, <3>2
    <2>2. /\ delivered'[r] = Append(delivered[r], event)
          /\ Len(delivered'[r]) = Len(delivered[r]) + 1
      BY <1>1, <1>2, <1>3, <1>4
    <2>3. DeliveredNext(r)'
      <3>1. ASSUME NEW i \in 1 .. Len(delivered'[r]) PROVE delivered'[r][i] = i
        <4>1. CASE i = Len(delivered[r]) + 1
          BY <1>1, <1>3, <2>1, <2>2, <4>1
        <4>2. CASE i \in 1 .. Len(delivered[r])
          <5>1. delivered[r][i] = 0 + i
            BY <4>2 DEF Gapless, DeliveredNext, Consecutive
          <5>2. QED
            BY <1>1, <1>3, <2>2, <4>2, <5>1
        <4>3. QED
          BY <1>1, <2>2, <4>1, <4>2
      <3>2. QED
        BY <3>1 DEF DeliveredNext, Consecutive
    <2>4. EventsNext(r)'
      <3>1. SUFFICES ASSUME NEW i \in 1 .. Len(events'[r]),
                            \A j \in 1 .. i : events'[r][j] # Closed
                     PROVE  events'[r][i] = Len(delivered'[r]) + i
        BY DEF EventsNext
      <3>2. i + 1 \in 1 .. Len(events[r]) /\ i \in Nat
        BY <1>1, <1>3
      <3>3. ASSUME NEW j \in 1 .. i + 1 PROVE events[r][j] # Closed
        <4>1. CASE j = 1
          BY <1>3, <1>4, <4>1
        <4>2. CASE j # 1
          <5>1. j - 1 \in 1 .. i /\ j - 1 \in 1 .. Len(events'[r]) /\ (j - 1) + 1 = j
            BY <1>1, <1>3, <3>2, <4>2
          <5>2. events'[r][j - 1] = events[r][j]
            BY <1>3, <5>1
          <5>3. QED
            BY <3>1, <5>1, <5>2
        <4>3. QED
          BY <4>1, <4>2
      <3>4. events[r][i + 1] = Len(delivered[r]) + (i + 1)
        BY <1>4, <3>2, <3>3 DEF Gapless, EventsNext
      <3>5. events'[r][i] = events[r][i + 1]
        BY <1>3
      <3>6. Len(delivered[r]) + (i + 1) = (Len(delivered[r]) + 1) + i
        BY <1>1, <3>2, Sums, Zenon
      <3>7. QED
        BY <2>2, <3>4, <3>5, <3>6
    <2>5. Evented(r)' = Evented(r)
      <3>1. Len(delivered'[r]) + Len(events'[r]) = (Len(delivered[r]) + 1) + (Len(events[r]) - 1)
        BY <1>3, <2>2
      <3>2. QED
        BY <1>1, <3>1, Sums, Zenon DEF Evented
    <2>6. /\ Read(r)' = Read(r) /\ Wired(r)' = Wired(r)
          /\ Written(r)' = Written(r) /\ Queued(r)' = Queued(r)
      BY <1>2, <2>5 DEF Read, Wired, Written, Queued
    <2>7. Live(r)' => Live(r)
      <3>1. SUFFICES ASSUME Live(r)', NEW j \in 1 .. Len(events[r]) PROVE events[r][j] # Closed
        BY <1>4 DEF Live
      <3>2. CASE j = 1
        BY <1>3, <1>4, <3>2
      <3>3. CASE j # 1
        <4>1. j - 1 \in 1 .. Len(events'[r]) /\ (j - 1) + 1 = j
          BY <1>1, <1>3, <3>3
        <4>2. events'[r][j - 1] = events[r][j]
          BY <1>3, <4>1
        <4>3. QED
          BY <3>1, <4>1, <4>2 DEF Live
      <3>4. QED
        BY <3>2, <3>3
    <2>8. ReaderNext(r)' /\ WireNext(r)' /\ WriterNext(r)' /\ OutboundNext(r)'
      BY <1>2, <2>5, <2>6, <2>7 DEF Gapless, ReaderNext, WireNext, WriterNext, OutboundNext,
         Consecutive
    <2>9. ASSUME NEW n \in viaGatt[p]
          PROVE  Len(delivered'[r]) < n /\ \A i \in 1 .. Len(events'[r]) : events'[r][i] < n
      <3>1. \A i \in 1 .. Len(events[r]) : events[r][i] < n
        BY DEF GattAfter
      <3>2. event < n
        BY <1>1, <1>3, <3>1
      <3>3. Len(delivered'[r]) < n
        BY <2>1, <2>2, <3>2
      <3>4. ASSUME NEW i \in 1 .. Len(events'[r]) PROVE events'[r][i] < n
        <4>1. i + 1 \in 1 .. Len(events[r])
          BY <1>1, <1>3
        <4>2. QED
          BY <1>3, <3>1, <4>1
      <3>5. QED
        BY <3>3, <3>4
    <2>10. GattAfter(r)'
      BY <1>2, <2>9 DEF GattAfter
    <2>11. QED
      BY <2>3, <2>4, <2>8, <2>10 DEF Gapless
  <1>5. CASE ~(registered[r] /\ event # Closed)
    <2>1. ~registered'[r] /\ delivered'[r] = delivered[r]
      BY <1>2, <1>5
    <2>2. DeliveredNext(r)' /\ EventsNext(r)'
      BY <2>1 DEF Gapless, DeliveredNext, EventsNext, Consecutive
    <2>3. ReaderNext(r)' /\ WireNext(r)' /\ WriterNext(r)' /\ OutboundNext(r)'
      BY <2>1 DEF ReaderNext, WireNext, WriterNext, OutboundNext, Live
    <2>4. ASSUME NEW n \in viaGatt[p]
          PROVE  \A i \in 1 .. Len(events'[r]) : events'[r][i] < n
      <3>1. \A i \in 1 .. Len(events[r]) : events[r][i] < n
        BY DEF GattAfter
      <3>2. ASSUME NEW i \in 1 .. Len(events'[r])
            PROVE  i + 1 \in 1 .. Len(events[r]) /\ events'[r][i] = events[r][i + 1]
        <4>1. i + 1 \in 1 .. Len(events[r])
          BY <1>1, <1>3
        <4>2. events'[r][i] = events[r][i + 1]
          BY <1>3
        <4>3. QED
          BY <4>1, <4>2
      <3>3. QED
        BY <3>1, <3>2
    <2>5. GattAfter(r)'
      BY <1>2, <2>1, <2>4 DEF GattAfter
    <2>6. QED
      BY <2>2, <2>3, <2>5 DEF Gapless
  <1>6. QED
    BY <1>4, <1>5

(* Taking the head of a queue of consecutive numbers, or adding the next.  *)
LEMMA ConsecutiveOps ==
    ASSUME NEW q \in Seq(Nat), NEW n \in Nat, Consecutive(q, n)
    PROVE  /\ q # <<>> => /\ Head(q) = n + 1 /\ Head(q) = q[1]
                          /\ Len(q) \in Nat /\ 1 \in 1 .. Len(q)
                          /\ Consecutive(Tail(q), n + 1)
                          /\ n + Len(q) = (n + 1) + Len(Tail(q))
           /\ Consecutive(Append(q, n + Len(q) + 1), n)
           /\ n + Len(Append(q, n + Len(q) + 1)) = n + Len(q) + 1
  <1>1. ASSUME q # <<>>
        PROVE  /\ Head(q) = n + 1 /\ Head(q) = q[1]
               /\ Len(q) \in Nat /\ 1 \in 1 .. Len(q)
               /\ Consecutive(Tail(q), n + 1)
               /\ n + Len(q) = (n + 1) + Len(Tail(q))
    <2>1. /\ Head(q) = q[1] /\ Len(q) \in Nat /\ Len(q) > 0
          /\ Len(Tail(q)) = Len(q) - 1
          /\ \A i \in 1 .. Len(q) - 1 : Tail(q)[i] = q[i + 1]
      BY <1>1
    <2>2. Head(q) = n + 1
      BY <2>1 DEF Consecutive
    <2>3. ASSUME NEW i \in 1 .. Len(q) - 1
          PROVE  Tail(q)[i] = (n + 1) + i
      <3>1. q[i + 1] = n + (i + 1)
        BY <2>1 DEF Consecutive
      <3>2. QED
        BY <2>1, <3>1
    <2>4. Consecutive(Tail(q), n + 1)
      BY <2>1, <2>3 DEF Consecutive
    <2>5. n + Len(q) = (n + 1) + Len(Tail(q))
      <3>1. \A m \in Nat : n + m = (n + 1) + (m - 1)
        OBVIOUS
      <3>2. QED
        BY <2>1, <3>1
    <2>6. 1 \in 1 .. Len(q)
      BY <2>1
    <2>7. QED
      BY <2>1, <2>2, <2>4, <2>5, <2>6
  <1>2. ASSUME NEW i \in 1 .. Len(q) + 1
        PROVE  Append(q, n + Len(q) + 1)[i] = n + i
    BY DEF Consecutive
  <1>3. Len(Append(q, n + Len(q) + 1)) = Len(q) + 1 /\ Len(q) \in Nat
    OBVIOUS
  <1>4. Consecutive(Append(q, n + Len(q) + 1), n)
    BY <1>2, <1>3 DEF Consecutive
  <1>5. n + Len(Append(q, n + Len(q) + 1)) = n + Len(q) + 1
    <2>1. (n + Len(q)) + 1 = n + (Len(q) + 1)
      BY <1>3, Sums, Zenon
    <2>2. QED
      BY <1>3, <2>1, Zenon
  <1>6. QED
    BY <1>1, <1>4, <1>5

(* The elements of a queue are still below n after its head was taken, and *)
(* after a number below n was added.                                       *)
LEMMA BelowOps ==
    ASSUME NEW q \in Seq(Nat), NEW m \in Nat, NEW n, \A i \in 1 .. Len(q) : q[i] < n
    PROVE  /\ q # <<>> => /\ Head(q) < n
                          /\ \A i \in 1 .. Len(Tail(q)) : Tail(q)[i] < n
           /\ m < n => \A i \in 1 .. Len(Append(q, m)) : Append(q, m)[i] < n
  <1>1. ASSUME q # <<>>
        PROVE  Head(q) < n /\ \A i \in 1 .. Len(Tail(q)) : Tail(q)[i] < n
    <2>1. /\ Head(q) = q[1] /\ Len(q) \in Nat /\ Len(q) > 0
          /\ Len(Tail(q)) = Len(q) - 1
          /\ \A i \in 1 .. Len(q) - 1 : Tail(q)[i] = q[i + 1]
      BY <1>1
    <2>2. \A i \in 1 .. Len(q) - 1 : i + 1 \in 1 .. Len(q)
      BY <2>1
    <2>3. 1 \in 1 .. Len(q)
      BY <2>1
    <2>4. QED
      BY <2>1, <2>2, <2>3
  <1>2. ASSUME m < n, NEW i \in 1 .. Len(Append(q, m))
        PROVE  Append(q, m)[i] < n
    <2>1. CASE i = Len(q) + 1
      <3>1. Append(q, m)[i] = m
        BY <2>1
      <3>2. QED
        BY <1>2, <3>1
    <2>2. CASE i \in 1 .. Len(q)
      <3>1. Append(q, m)[i] = q[i]
        BY <2>2
      <3>2. QED
        BY <2>2, <3>1
    <2>3. QED
      BY <2>1, <2>2
  <1>3. QED
    BY <1>1, <1>2

(* The payloads of the fallback are numbered from 1 too.                   *)
LEMMA GattPositive ==
    ASSUME TypeInv, NEW p \in Side
    PROVE  \A n \in viaGatt[p] : 0 < n
  <1>1. SUFFICES ASSUME NEW n \in viaGatt[p] PROVE 0 < n
    OBVIOUS
  <1>2. n \in Nat
    BY OfSide
  <1>3. 1 <= n
    BY DEF TypeInv, OnlyDispatched
  <1>4. QED
    BY <1>2, <1>3

(* The writer takes the first frame that is not on its way yet.            *)
LEMMA WriterTakesOrder ==
    ASSUME TypeInv, NEW r \in Side, NEW p \in Side, p = Peer[r],
           Gapless(r), GattAfter(r), WriterTakes(p)
    PROVE  Gapless(r)' /\ GattAfter(r)'
  <1>1. /\ p # r /\ outbound[p] \in Seq(Nat) /\ outbound[p] # <<>>
        /\ writer[p].state = "idle"
        /\ Wired(r) \in Nat /\ Written(r) = Wired(r)
    BY OfDirection, Counts DEF WriterTakes, Written
  <1>2. /\ delivered'[r] = delivered[r] /\ events'[r] = events[r] /\ reader'[r] = reader[r]
        /\ wire'[p] = wire[p] /\ dispatched'[p] = dispatched[p]
        /\ registered'[r] = registered[r] /\ registered'[p] = registered[p]
        /\ viaGatt'[p] = viaGatt[p]
        /\ writer'[p].state = "writing" /\ writer'[p].holds = Head(outbound[p])
        /\ outbound'[p] = Tail(outbound[p])
    BY <1>1 DEF TypeInv, Shape, WriterTakes, runtime, At
  <1>3. /\ Evented(r)' = Evented(r) /\ Read(r)' = Read(r) /\ Wired(r)' = Wired(r)
        /\ Live(r)' = Live(r)
    BY <1>2 DEF Evented, Read, Wired, Live
  <1>4. Written(r)' = Wired(r) + 1
    BY <1>2, <1>3 DEF Written
  <1>5. DeliveredNext(r)' /\ EventsNext(r)' /\ ReaderNext(r)' /\ WireNext(r)'
    BY <1>2, <1>3 DEF Gapless, DeliveredNext, EventsNext, ReaderNext, WireNext, Consecutive
  <1>6. ASSUME Live(r)
        PROVE  /\ Head(outbound[p]) = Wired(r) + 1
               /\ Consecutive(Tail(outbound[p]), Wired(r) + 1)
               /\ Queued(r)' = Queued(r)
               /\ registered[p] => dispatched[p] = Queued(r)
    <2>1. Consecutive(outbound[p], Wired(r)) /\ (registered[p] => dispatched[p] = Queued(r))
      BY <1>1, <1>6 DEF Gapless, OutboundNext
    <2>2. /\ Head(outbound[p]) = Wired(r) + 1
          /\ Consecutive(Tail(outbound[p]), Wired(r) + 1)
          /\ Wired(r) + Len(outbound[p]) = (Wired(r) + 1) + Len(Tail(outbound[p]))
      BY <1>1, <2>1, ConsecutiveOps
    <2>3. QED
      BY <1>1, <1>2, <1>4, <2>1, <2>2 DEF Queued
  <1>7. WriterNext(r)' /\ OutboundNext(r)'
    BY <1>2, <1>3, <1>4, <1>6 DEF WriterNext, OutboundNext
  <1>8. ASSUME NEW n \in viaGatt[p]
        PROVE  /\ Head(outbound[p]) < n
               /\ \A i \in 1 .. Len(outbound'[p]) : outbound'[p][i] < n
    <2>1. \A i \in 1 .. Len(outbound[p]) : outbound[p][i] < n
      BY DEF GattAfter
    <2>2. QED
      BY <1>1, <1>2, <2>1, BelowOps
  <1>9. GattAfter(r)'
    BY <1>2, <1>8 DEF GattAfter
  <1>10. QED
    BY <1>5, <1>7, <1>9 DEF Gapless

(* The writer's frame goes behind what is on the wire; after a failure it  *)
(* writes nothing more.                                                    *)
LEMMA WriterWritesOrder ==
    ASSUME TypeInv, NEW r \in Side, NEW p \in Side, p = Peer[r],
           Gapless(r), GattAfter(r), WriterWrites(p)
    PROVE  Gapless(r)' /\ GattAfter(r)'
  <1>1. /\ p # r /\ wire[p] \in Seq(Nat) /\ writer[p].state = "writing"
        /\ writer[p].holds \in Nat
        /\ Read(r) \in Nat /\ Wired(r) = Read(r) + Len(wire[p]) /\ Written(r) = Wired(r) + 1
    BY OfDirection, Counts DEF WriterWrites, Written, Wired
  <1>2. /\ delivered'[r] = delivered[r] /\ events'[r] = events[r] /\ reader'[r] = reader[r]
        /\ outbound'[p] = outbound[p] /\ dispatched'[p] = dispatched[p]
        /\ registered'[r] = registered[r] /\ registered'[p] = registered[p]
        /\ viaGatt'[p] = viaGatt[p]
    BY <1>1 DEF TypeInv, Shape, WriterWrites, runtime
  <1>3. Evented(r)' = Evented(r) /\ Read(r)' = Read(r) /\ Live(r)' = Live(r)
    BY <1>2 DEF Evented, Read, Live
  <1>4. DeliveredNext(r)' /\ EventsNext(r)' /\ ReaderNext(r)'
    BY <1>2, <1>3 DEF Gapless, DeliveredNext, EventsNext, ReaderNext, Consecutive
  <1>5. ASSUME NEW n \in viaGatt[p]
        PROVE  0 < n /\ writer[p].holds < n /\ \A i \in 1 .. Len(wire[p]) : wire[p][i] < n
    BY GattPositive DEF GattAfter
  <1>6. CASE /\ writer'[p].state = "failed" /\ writer'[p].holds = 0 /\ wire'[p] = wire[p]
    <2>1. WireNext(r)'
      BY <1>3, <1>6 DEF Gapless, WireNext, Consecutive
    <2>2. WriterNext(r)' /\ OutboundNext(r)'
      BY <1>6 DEF WriterNext, OutboundNext
    <2>3. GattAfter(r)'
      BY <1>2, <1>5, <1>6 DEF GattAfter
    <2>4. QED
      BY <1>4, <2>1, <2>2, <2>3 DEF Gapless
  <1>7. CASE /\ writer'[p].state = "idle" /\ writer'[p].holds = 0
             /\ wire'[p] = Append(wire[p], writer[p].holds)
    <2>1. Len(wire'[p]) = Len(wire[p]) + 1
      BY <1>1, <1>7
    <2>2. Wired(r)' = Read(r) + (Len(wire[p]) + 1)
      BY <1>3, <2>1 DEF Wired
    <2>3. Wired(r)' = Written(r) /\ Written(r)' = Written(r)
      BY <1>1, <1>7, <2>2 DEF Written
    <2>4. Queued(r)' = Queued(r)
      BY <1>2, <2>3 DEF Queued
    <2>5. WireNext(r)'
      <3>1. SUFFICES ASSUME Live(r) PROVE Consecutive(wire'[p], Read(r))
        BY <1>3 DEF WireNext
      <3>2. Consecutive(wire[p], Read(r)) /\ writer[p].holds = Read(r) + Len(wire[p]) + 1
        BY <1>1, <3>1 DEF Gapless, WireNext, WriterNext
      <3>3. Consecutive(Append(wire[p], Read(r) + Len(wire[p]) + 1), Read(r))
        BY <1>1, <3>2, ConsecutiveOps
      <3>4. QED
        BY <1>7, <3>2, <3>3
    <2>6. WriterNext(r)'
      BY <1>7 DEF WriterNext
    <2>7. OutboundNext(r)'
      BY <1>1, <1>2, <1>3, <2>3, <2>4 DEF Gapless, OutboundNext
    <2>8. ASSUME NEW n \in viaGatt[p]
          PROVE  \A i \in 1 .. Len(wire'[p]) : wire'[p][i] < n
      BY <1>1, <1>5, <1>7, BelowOps
    <2>9. GattAfter(r)'
      BY <1>2, <1>5, <1>7, <2>8 DEF GattAfter
    <2>10. QED
      BY <1>4, <2>5, <2>6, <2>7, <2>9 DEF Gapless
  <1>8. QED
    <2>1. CASE writer' = [writer EXCEPT ![p] = At("failed", 0)] /\ wire' = wire
      BY <1>6, <2>1 DEF TypeInv, Shape, At
    <2>2. CASE /\ writer' = [writer EXCEPT ![p] = At("idle", 0)]
               /\ wire' = [wire EXCEPT ![p] = Append(wire[p], writer[p].holds)]
      BY <1>7, <2>2 DEF TypeInv, Shape, At
    <2>3. QED
      BY <2>1, <2>2 DEF WriterWrites

(* A writer that has ended sends nothing more.                             *)
LEMMA WriterEndsOrder ==
    ASSUME TypeInv, NEW r \in Side, NEW p \in Side, p = Peer[r],
           Gapless(r), GattAfter(r), WriterEnds(p)
    PROVE  Gapless(r)' /\ GattAfter(r)'
  <1>1. /\ p # r
        /\ delivered'[r] = delivered[r] /\ events'[r] = events[r] /\ reader'[r] = reader[r]
        /\ outbound'[p] = outbound[p] /\ dispatched'[p] = dispatched[p] /\ wire'[p] = wire[p]
        /\ registered'[r] = registered[r] /\ registered'[p] = registered[p]
        /\ viaGatt'[p] = viaGatt[p]
        /\ writer'[p].state = "done" /\ writer'[p].holds = 0
    <2>1. p # r
      BY OfDirection
    <2>2. /\ \/ events' = events
             \/ events' = [events EXCEPT ![p] = Append(events[p], Closed)]
          /\ writer' = [writer EXCEPT ![p] = At("done", 0)]
          /\ UNCHANGED <<delivered, reader, outbound, dispatched, wire, registered, viaGatt>>
      BY DEF WriterEnds, runtime
    <2>3. events'[r] = events[r]
      BY <2>1, <2>2 DEF TypeInv, Shape
    <2>4. writer'[p].state = "done" /\ writer'[p].holds = 0
      BY <2>2 DEF TypeInv, Shape, At
    <2>5. QED
      BY <2>1, <2>2, <2>3, <2>4
  <1>2. /\ Evented(r)' = Evented(r) /\ Read(r)' = Read(r) /\ Live(r)' = Live(r)
    BY <1>1 DEF Evented, Read, Live
  <1>3. DeliveredNext(r)' /\ EventsNext(r)' /\ ReaderNext(r)' /\ WireNext(r)'
    BY <1>1, <1>2 DEF Gapless, DeliveredNext, EventsNext, ReaderNext, WireNext, Consecutive
  <1>4. WriterNext(r)' /\ OutboundNext(r)'
    BY <1>1 DEF WriterNext, OutboundNext
  <1>5. \A n \in viaGatt[p] : 0 < n
    BY GattPositive
  <1>6. GattAfter(r)'
    BY <1>1, <1>5 DEF GattAfter
  <1>7. QED
    BY <1>3, <1>4, <1>6 DEF Gapless

(* A closure in the event queue of a runtime ends the order it relies on:  *)
(* frames behind it are ignored.                                           *)
LEMMA ClosedOrder ==
    ASSUME TypeInv, NEW r \in Side, NEW p \in Side, p = Peer[r],
           Gapless(r), GattAfter(r),
           events'[r] = Append(events[r], Closed),
           delivered'[r] = delivered[r],
           reader'[r] = reader[r] \/ reader'[r].holds = 0,
           wire'[p] = wire[p], writer'[p] = writer[p], outbound'[p] = outbound[p],
           dispatched'[p] = dispatched[p], viaGatt'[p] = viaGatt[p],
           registered'[r] = registered[r], registered'[p] = registered[p]
    PROVE  Gapless(r)' /\ GattAfter(r)'
  <1>1. events[r] \in Seq(Nat) /\ Len(events[r]) \in Nat
    BY OfDirection
  <1>2. /\ Len(events'[r]) = Len(events[r]) + 1
        /\ events'[r][Len(events[r]) + 1] = Closed
        /\ \A i \in 1 .. Len(events[r]) : events'[r][i] = events[r][i]
    BY <1>1 DEF Closed
  <1>3. ~Live(r)'
    <2>1. Len(events[r]) + 1 \in 1 .. Len(events'[r])
      BY <1>1, <1>2
    <2>2. QED
      BY <1>2, <2>1 DEF Live
  <1>4. ReaderNext(r)' /\ WireNext(r)' /\ WriterNext(r)' /\ OutboundNext(r)'
    BY <1>3 DEF ReaderNext, WireNext, WriterNext, OutboundNext
  <1>5. DeliveredNext(r)'
    BY DEF Gapless, DeliveredNext, Consecutive
  <1>6. EventsNext(r)'
    <2>1. SUFFICES ASSUME registered[r], NEW i \in 1 .. Len(events'[r]),
                          \A j \in 1 .. i : events'[r][j] # Closed
                   PROVE  events'[r][i] = Len(delivered[r]) + i
      BY DEF EventsNext
    <2>2. i \in 1 .. Len(events[r])
      BY <1>1, <1>2, <2>1
    <2>3. \A j \in 1 .. i : j \in 1 .. Len(events[r])
      BY <1>1, <2>2
    <2>4. \A j \in 1 .. i : events[r][j] # Closed
      BY <1>2, <2>1, <2>3
    <2>5. QED
      BY <1>2, <2>1, <2>2, <2>4 DEF Gapless, EventsNext
  <1>7. ASSUME NEW n \in viaGatt[p]
        PROVE  reader'[r].holds < n /\ \A i \in 1 .. Len(events'[r]) : events'[r][i] < n
    <2>1. /\ 0 < n /\ reader[r].holds < n /\ \A i \in 1 .. Len(events[r]) : events[r][i] < n
      BY GattPositive DEF GattAfter
    <2>2. \A i \in 1 .. Len(events'[r]) : events'[r][i] < n
      BY <1>1, <2>1, BelowOps DEF Closed
    <2>3. QED
      BY <2>1, <2>2
  <1>8. GattAfter(r)'
    BY <1>7 DEF GattAfter
  <1>9. QED
    BY <1>4, <1>5, <1>6, <1>8 DEF Gapless

(* The reader takes the first frame of the wire.                           *)
LEMMA ReaderTakesOrder ==
    ASSUME TypeInv, NEW r \in Side, NEW p \in Side, p = Peer[r],
           Gapless(r), GattAfter(r), ReaderTakes(r)
    PROVE  Gapless(r)' /\ GattAfter(r)'
  <1>1. /\ p # r /\ wire[p] \in Seq(Nat) /\ wire[p] # <<>>
        /\ reader[r].state = "idle"
        /\ Evented(r) \in Nat /\ Read(r) = Evented(r)
    BY OfDirection, Counts DEF ReaderTakes, Read
  <1>2. /\ delivered'[r] = delivered[r] /\ events'[r] = events[r]
        /\ writer'[p] = writer[p] /\ outbound'[p] = outbound[p]
        /\ dispatched'[p] = dispatched[p] /\ viaGatt'[p] = viaGatt[p]
        /\ registered'[r] = registered[r] /\ registered'[p] = registered[p]
        /\ reader'[r].state = "sending" /\ reader'[r].holds = Head(wire[p])
        /\ wire'[p] = Tail(wire[p])
    BY <1>1 DEF TypeInv, Shape, ReaderTakes, runtime, At
  <1>3. Evented(r)' = Evented(r) /\ Live(r)' = Live(r)
    BY <1>2 DEF Evented, Live
  <1>4. Read(r)' = Evented(r) + 1
    BY <1>2, <1>3 DEF Read
  <1>5. DeliveredNext(r)' /\ EventsNext(r)'
    BY <1>2 DEF Gapless, DeliveredNext, EventsNext, Consecutive
  <1>6. ASSUME Live(r)
        PROVE  /\ Head(wire[p]) = Evented(r) + 1
               /\ Consecutive(Tail(wire[p]), Evented(r) + 1)
               /\ Wired(r)' = Wired(r)
    <2>1. Consecutive(wire[p], Evented(r))
      BY <1>1, <1>6 DEF Gapless, WireNext
    <2>2. /\ Head(wire[p]) = Evented(r) + 1
          /\ Consecutive(Tail(wire[p]), Evented(r) + 1)
          /\ Evented(r) + Len(wire[p]) = (Evented(r) + 1) + Len(Tail(wire[p]))
      BY <1>1, <2>1, ConsecutiveOps
    <2>3. QED
      BY <1>1, <1>2, <1>4, <2>2 DEF Wired
  <1>7. Live(r) => Written(r)' = Written(r) /\ Queued(r)' = Queued(r)
    BY <1>2, <1>6 DEF Written, Queued
  <1>8. ReaderNext(r)' /\ WireNext(r)'
    BY <1>2, <1>3, <1>4, <1>6 DEF ReaderNext, WireNext
  <1>9. WriterNext(r)' /\ OutboundNext(r)'
    BY <1>2, <1>3, <1>6, <1>7 DEF Gapless, WriterNext, OutboundNext, Consecutive
  <1>10. ASSUME NEW n \in viaGatt[p]
         PROVE  Head(wire[p]) < n /\ \A i \in 1 .. Len(wire'[p]) : wire'[p][i] < n
    <2>1. \A i \in 1 .. Len(wire[p]) : wire[p][i] < n
      BY DEF GattAfter
    <2>2. QED
      BY <1>1, <1>2, <2>1, BelowOps
  <1>11. GattAfter(r)'
    BY <1>2, <1>10 DEF GattAfter
  <1>12. QED
    BY <1>5, <1>8, <1>9, <1>11 DEF Gapless

(* The reader's frame goes behind what is in the event queue.              *)
LEMMA ReaderForwardsOrder ==
    ASSUME TypeInv, NEW r \in Side, NEW p \in Side, p = Peer[r],
           Gapless(r), GattAfter(r), ReaderForwards(r)
    PROVE  Gapless(r)' /\ GattAfter(r)'
  <1> DEFINE n == reader[r].holds
  <1>1. /\ p # r /\ events[r] \in Seq(Nat) /\ Len(events[r]) \in Nat /\ Len(delivered[r]) \in Nat
        /\ reader[r].state = "sending" /\ n \in Nat
        /\ Evented(r) = Len(delivered[r]) + Len(events[r]) /\ Read(r) = Evented(r) + 1
    BY OfDirection DEF ReaderForwards, Evented, Read
  <1>2. /\ delivered'[r] = delivered[r] /\ wire'[p] = wire[p]
        /\ writer'[p] = writer[p] /\ outbound'[p] = outbound[p]
        /\ dispatched'[p] = dispatched[p] /\ viaGatt'[p] = viaGatt[p]
        /\ registered'[r] = registered[r] /\ registered'[p] = registered[p]
        /\ reader'[r].state = "idle" /\ reader'[r].holds = 0
        /\ events'[r] = Append(events[r], n)
    BY <1>1 DEF TypeInv, Shape, ReaderForwards, runtime, At
  <1>3. /\ Len(events'[r]) = Len(events[r]) + 1
        /\ events'[r][Len(events[r]) + 1] = n
        /\ \A i \in 1 .. Len(events[r]) : events'[r][i] = events[r][i]
    BY <1>1, <1>2
  <1>4. Evented(r)' = Len(delivered[r]) + (Len(events[r]) + 1)
    BY <1>2, <1>3 DEF Evented
  <1>5. Evented(r)' = Read(r)
    <2>1. (Len(delivered[r]) + Len(events[r])) + 1 = Len(delivered[r]) + (Len(events[r]) + 1)
      BY <1>1, Sums, Zenon
    <2>2. QED
      BY <1>1, <1>4, <2>1, Zenon
  <1>6. Read(r)' = Read(r) /\ Wired(r)' = Wired(r) /\ Written(r)' = Written(r) /\ Queued(r)' = Queued(r)
    BY <1>2, <1>5 DEF Read, Wired, Written, Queued
  <1>7. Live(r)' => Live(r)
    <2>1. \A i \in 1 .. Len(events[r]) : i \in 1 .. Len(events'[r])
      BY <1>1, <1>3
    <2>2. QED
      BY <1>2, <1>3, <2>1 DEF Live
  <1>8. DeliveredNext(r)' /\ ReaderNext(r)' /\ WireNext(r)' /\ WriterNext(r)' /\ OutboundNext(r)'
    BY <1>2, <1>6, <1>7 DEF Gapless, DeliveredNext, ReaderNext, WireNext, WriterNext,
       OutboundNext, Consecutive
  <1>9. EventsNext(r)'
    <2>1. SUFFICES ASSUME registered[r], NEW i \in 1 .. Len(events'[r]),
                          \A j \in 1 .. i : events'[r][j] # Closed
                   PROVE  events'[r][i] = Len(delivered[r]) + i
      BY <1>2 DEF EventsNext
    <2>2. CASE i \in 1 .. Len(events[r])
      <3>1. \A j \in 1 .. i : j \in 1 .. Len(events[r])
        BY <1>1, <2>2
      <3>2. \A j \in 1 .. i : events[r][j] # Closed
        BY <1>3, <2>1, <3>1
      <3>3. QED
        BY <1>3, <2>1, <2>2, <3>2 DEF Gapless, EventsNext
    <2>3. CASE i = Len(events[r]) + 1
      <3>1. \A j \in 1 .. Len(events[r]) : j \in 1 .. i
        BY <1>1, <2>3
      <3>2. Live(r)
        BY <1>3, <2>1, <3>1 DEF Live
      <3>3. n = Evented(r) + 1
        BY <1>1, <3>2 DEF Gapless, ReaderNext
      <3>4. n = Len(delivered[r]) + (Len(events[r]) + 1)
        <4>1. (Len(delivered[r]) + Len(events[r])) + 1 = Len(delivered[r]) + (Len(events[r]) + 1)
          BY <1>1, Sums, Zenon
        <4>2. QED
          BY <1>1, <3>3, <4>1, Zenon
      <3>5. QED
        BY <1>3, <2>3, <3>4
    <2>4. QED
      BY <1>1, <1>3, <2>2, <2>3
  <1>10. ASSUME NEW m \in viaGatt[p]
         PROVE  0 < m /\ \A i \in 1 .. Len(events'[r]) : events'[r][i] < m
    <2>1. /\ 0 < m /\ n < m /\ \A i \in 1 .. Len(events[r]) : events[r][i] < m
      BY GattPositive DEF GattAfter
    <2>2. QED
      BY <1>1, <1>2, <2>1, BelowOps
  <1>11. GattAfter(r)'
    BY <1>2, <1>10 DEF GattAfter
  <1>12. QED
    BY <1>8, <1>9, <1>11 DEF Gapless

(* A reader that sees the end of the stream held no frame.                 *)
LEMMA ReaderSeesEndOrder ==
    ASSUME TypeInv, NEW r \in Side, NEW p \in Side, p = Peer[r],
           Gapless(r), GattAfter(r), ReaderSeesEnd(r)
    PROVE  Gapless(r)' /\ GattAfter(r)'
  <1>1. /\ p # r
        /\ delivered'[r] = delivered[r] /\ events'[r] = events[r] /\ wire'[p] = wire[p]
        /\ writer'[p] = writer[p] /\ outbound'[p] = outbound[p]
        /\ dispatched'[p] = dispatched[p] /\ viaGatt'[p] = viaGatt[p]
        /\ registered'[r] = registered[r] /\ registered'[p] = registered[p]
        /\ reader[r].state = "idle"
        /\ reader'[r].state = "closing" /\ reader'[r].holds = 0
    BY OfDirection DEF TypeInv, Shape, ReaderSeesEnd, runtime, At
  <1>2. /\ Evented(r)' = Evented(r) /\ Read(r)' = Read(r) /\ Wired(r)' = Wired(r)
        /\ Written(r)' = Written(r) /\ Queued(r)' = Queued(r) /\ Live(r)' = Live(r)
    BY <1>1 DEF Evented, Read, Wired, Written, Queued, Live
  <1>a. DeliveredNext(r)' /\ EventsNext(r)'
    <2>1. DeliveredNext(r) /\ EventsNext(r)
      BY DEF Gapless
    <2>2. /\ delivered'[r] = delivered[r] /\ events'[r] = events[r]
          /\ registered'[r] = registered[r]
      BY <1>1
    <2>3. QED
      BY <2>1, <2>2 DEF DeliveredNext, EventsNext, Consecutive
  <1>b. ReaderNext(r)'
    BY <1>1 DEF ReaderNext
  <1>3. DeliveredNext(r)' /\ EventsNext(r)' /\ ReaderNext(r)'
    BY <1>a, <1>b
  <1>4. WireNext(r)' /\ WriterNext(r)' /\ OutboundNext(r)'
    BY <1>1, <1>2 DEF Gapless, WireNext, WriterNext, OutboundNext, Consecutive
  <1>5. \A n \in viaGatt[p] : 0 < n
    BY GattPositive
  <1>6. GattAfter(r)'
    BY <1>1, <1>5 DEF GattAfter
  <1>7. QED
    BY <1>3, <1>4, <1>6 DEF Gapless

-----------------------------------------------------------------------------
(* The invariant *)

(* Nothing is under way at the start.                                      *)
LEMMA InitOrder == Init => OrderInv
  <1>1. SUFFICES ASSUME Init, NEW r \in Side PROVE Gapless(r) /\ GattAfter(r)
    BY DEF OrderInv
  <1>2. PICK p \in Side : p = Peer[r]
    BY Pairs
  <1>3. /\ delivered[r] = <<>> /\ events[r] = <<>> /\ reader[r].state = "idle"
        /\ wire[p] = <<>> /\ writer[p].state = "idle" /\ outbound[p] = <<>>
        /\ dispatched[p] = 0 /\ viaGatt[p] = {}
    BY <1>1, <1>2 DEF Init, At
  <1>4. \A n : Consecutive(<<>>, n)
    BY DEF Consecutive
  <1>5. Len(delivered[r]) = 0 /\ Len(events[r]) = 0 /\ Len(wire[p]) = 0 /\ Len(outbound[p]) = 0
    BY <1>3
  <1>6. Evented(r) = 0 /\ Read(r) = 0
    BY <1>3, <1>5 DEF Evented, Read
  <1>7. Wired(r) = 0 /\ Written(r) = 0
    BY <1>2, <1>3, <1>5, <1>6 DEF Wired, Written
  <1>8. Queued(r) = 0
    BY <1>2, <1>5, <1>7 DEF Queued
  <1>9. DeliveredNext(r) /\ EventsNext(r) /\ ReaderNext(r)
    BY <1>3, <1>4, <1>5 DEF DeliveredNext, EventsNext, ReaderNext
  <1>10. WireNext(r) /\ WriterNext(r) /\ OutboundNext(r)
    BY <1>2, <1>3, <1>4, <1>8 DEF WireNext, WriterNext, OutboundNext
  <1>11. GattAfter(r)
    BY <1>2, <1>3 DEF GattAfter
  <1>12. QED
    BY <1>9, <1>10, <1>11 DEF Gapless

(* Every step of a runtime, of one of its tasks or of the link keeps the   *)
(* frames of every direction in order.                                     *)
LEMMA StepOrder ==
    ASSUME TypeInv, OrderInv, NEW s \in Side, NEW r \in Side,
           \/ DispatchOutboundBatch(s)
           \/ SendViaSession(s)
           \/ HandleL2capRuntimeEvent(s)
           \/ WriterTakes(s)
           \/ WriterWrites(s)
           \/ WriterEnds(s)
           \/ ReaderTakes(s)
           \/ ReaderForwards(s)
           \/ ReaderSeesEnd(s)
           \/ ReaderEnds(s)
           \/ WriteDies(s)
    PROVE  Gapless(r)' /\ GattAfter(r)'
  <1>1. PICK p \in Side : p = Peer[r] /\ Peer[p] = r /\ p # r
    BY Pairs
  <1>2. Gapless(r) /\ GattAfter(r)
    BY DEF OrderInv
  <1>3. CASE DispatchOutboundBatch(s)
    <2>1. /\ delivered'[r] = delivered[r] /\ events'[r] = events[r] /\ reader'[r] = reader[r]
          /\ wire'[p] = wire[p] /\ writer'[p] = writer[p] /\ outbound'[p] = outbound[p]
          /\ dispatched'[p] = dispatched[p] /\ viaGatt'[p] = viaGatt[p]
          /\ registered'[r] => registered[r]
          /\ registered'[p] => registered[p]
      BY <1>1, <1>3 DEF TypeInv, Shape, DispatchOutboundBatch, runtime
    <2>2. QED
      BY <1>1, <1>2, <2>1, Untouched
  <1>4. CASE SendViaSession(s)
    <2>1. CASE s = p
      BY <1>1, <1>2, <1>4, <2>1, SendViaSessionOrder
    <2>2. CASE s # p
      <3>1. /\ delivered'[r] = delivered[r] /\ events'[r] = events[r] /\ reader'[r] = reader[r]
            /\ wire'[p] = wire[p] /\ writer'[p] = writer[p] /\ outbound'[p] = outbound[p]
            /\ dispatched'[p] = dispatched[p] /\ viaGatt'[p] = viaGatt[p]
            /\ registered'[r] => registered[r]
            /\ registered'[p] => registered[p]
        BY <1>1, <1>4, <2>2 DEF TypeInv, Shape, SendViaSession, runtime
      <3>2. QED
        BY <1>1, <1>2, <3>1, Untouched
    <2>3. QED
      BY <2>1, <2>2
  <1>5. CASE HandleL2capRuntimeEvent(s)
    <2>1. CASE s = r
      BY <1>1, <1>2, <1>5, <2>1, HandleL2capRuntimeEventOrder
    <2>2. CASE s # r
      <3>1. /\ delivered'[r] = delivered[r] /\ events'[r] = events[r] /\ reader'[r] = reader[r]
            /\ wire'[p] = wire[p] /\ writer'[p] = writer[p] /\ outbound'[p] = outbound[p]
            /\ dispatched'[p] = dispatched[p] /\ viaGatt'[p] = viaGatt[p]
            /\ registered'[r] => registered[r]
            /\ registered'[p] => registered[p]
        BY <1>1, <1>5, <2>2 DEF TypeInv, Shape, HandleL2capRuntimeEvent, runtime
      <3>2. QED
        BY <1>1, <1>2, <3>1, Untouched
    <2>3. QED
      BY <2>1, <2>2
  <1>6. CASE WriterTakes(s)
    <2>1. CASE s = p
      BY <1>1, <1>2, <1>6, <2>1, WriterTakesOrder
    <2>2. CASE s # p
      <3>1. /\ delivered'[r] = delivered[r] /\ events'[r] = events[r] /\ reader'[r] = reader[r]
            /\ wire'[p] = wire[p] /\ writer'[p] = writer[p] /\ outbound'[p] = outbound[p]
            /\ dispatched'[p] = dispatched[p] /\ viaGatt'[p] = viaGatt[p]
            /\ registered'[r] => registered[r]
            /\ registered'[p] => registered[p]
        BY <1>1, <1>6, <2>2 DEF TypeInv, Shape, WriterTakes, runtime
      <3>2. QED
        BY <1>1, <1>2, <3>1, Untouched
    <2>3. QED
      BY <2>1, <2>2
  <1>7. CASE WriterWrites(s)
    <2>1. CASE s = p
      BY <1>1, <1>2, <1>7, <2>1, WriterWritesOrder
    <2>2. CASE s # p
      <3>1. /\ delivered'[r] = delivered[r] /\ events'[r] = events[r] /\ reader'[r] = reader[r]
            /\ wire'[p] = wire[p] /\ writer'[p] = writer[p] /\ outbound'[p] = outbound[p]
            /\ dispatched'[p] = dispatched[p] /\ viaGatt'[p] = viaGatt[p]
            /\ registered'[r] => registered[r]
            /\ registered'[p] => registered[p]
        BY <1>1, <1>7, <2>2 DEF TypeInv, Shape, WriterWrites, runtime
      <3>2. QED
        BY <1>1, <1>2, <3>1, Untouched
    <2>3. QED
      BY <2>1, <2>2
  <1>8. CASE WriterEnds(s)
    <2>1. CASE s = p
      BY <1>1, <1>2, <1>8, <2>1, WriterEndsOrder
    <2>2. CASE s = r /\ events'[r] = Append(events[r], Closed)
      <3>1. /\ delivered'[r] = delivered[r]
            /\ reader'[r] = reader[r] \/ reader'[r].holds = 0
            /\ wire'[p] = wire[p] /\ writer'[p] = writer[p] /\ outbound'[p] = outbound[p]
            /\ dispatched'[p] = dispatched[p] /\ viaGatt'[p] = viaGatt[p]
            /\ registered'[r] = registered[r] /\ registered'[p] = registered[p]
        BY <1>1, <1>8, <2>2 DEF TypeInv, Shape, WriterEnds, runtime, At
      <3>2. QED
        BY <1>1, <1>2, <2>2, <3>1, ClosedOrder
    <2>3. CASE s # p /\ ~(s = r /\ events'[r] = Append(events[r], Closed))
      <3>1. /\ delivered'[r] = delivered[r] /\ events'[r] = events[r] /\ reader'[r] = reader[r]
            /\ wire'[p] = wire[p] /\ writer'[p] = writer[p] /\ outbound'[p] = outbound[p]
            /\ dispatched'[p] = dispatched[p] /\ viaGatt'[p] = viaGatt[p]
            /\ registered'[r] => registered[r]
            /\ registered'[p] => registered[p]
        BY <1>1, <1>8, <2>3 DEF TypeInv, Shape, WriterEnds, runtime
      <3>2. QED
        BY <1>1, <1>2, <3>1, Untouched
    <2>4. QED
      BY <2>1, <2>2, <2>3
  <1>9. CASE ReaderTakes(s)
    <2>1. CASE s = r
      BY <1>1, <1>2, <1>9, <2>1, ReaderTakesOrder
    <2>2. CASE s # r
      <3>1. /\ delivered'[r] = delivered[r] /\ events'[r] = events[r] /\ reader'[r] = reader[r]
            /\ wire'[p] = wire[p] /\ writer'[p] = writer[p] /\ outbound'[p] = outbound[p]
            /\ dispatched'[p] = dispatched[p] /\ viaGatt'[p] = viaGatt[p]
            /\ registered'[r] => registered[r]
            /\ registered'[p] => registered[p]
        <4>1. Peer[s] \in Side /\ Peer[s] # p
          BY <1>1, <2>2, Pairs
        <4>2. QED
          BY <1>9, <2>2, <4>1 DEF TypeInv, Shape, ReaderTakes, runtime
      <3>2. QED
        BY <1>1, <1>2, <3>1, Untouched
    <2>3. QED
      BY <2>1, <2>2
  <1>10. CASE ReaderForwards(s)
    <2>1. CASE s = r
      BY <1>1, <1>2, <1>10, <2>1, ReaderForwardsOrder
    <2>2. CASE s # r
      <3>1. /\ delivered'[r] = delivered[r] /\ events'[r] = events[r] /\ reader'[r] = reader[r]
            /\ wire'[p] = wire[p] /\ writer'[p] = writer[p] /\ outbound'[p] = outbound[p]
            /\ dispatched'[p] = dispatched[p] /\ viaGatt'[p] = viaGatt[p]
            /\ registered'[r] => registered[r]
            /\ registered'[p] => registered[p]
        BY <1>1, <1>10, <2>2 DEF TypeInv, Shape, ReaderForwards, runtime
      <3>2. QED
        BY <1>1, <1>2, <3>1, Untouched
    <2>3. QED
      BY <2>1, <2>2
  <1>11. CASE ReaderSeesEnd(s)
    <2>1. CASE s = r
      BY <1>1, <1>2, <1>11, <2>1, ReaderSeesEndOrder
    <2>2. CASE s # r
      <3>1. /\ delivered'[r] = delivered[r] /\ events'[r] = events[r] /\ reader'[r] = reader[r]
            /\ wire'[p] = wire[p] /\ writer'[p] = writer[p] /\ outbound'[p] = outbound[p]
            /\ dispatched'[p] = dispatched[p] /\ viaGatt'[p] = viaGatt[p]
            /\ registered'[r] => registered[r]
            /\ registered'[p] => registered[p]
        BY <1>1, <1>11, <2>2 DEF TypeInv, Shape, ReaderSeesEnd, runtime
      <3>2. QED
        BY <1>1, <1>2, <3>1, Untouched
    <2>3. QED
      BY <2>1, <2>2
  <1>12. CASE ReaderEnds(s)
    <2>1. CASE s = r /\ events'[r] = Append(events[r], Closed)
      <3>1. /\ delivered'[r] = delivered[r]
            /\ reader'[r] = reader[r] \/ reader'[r].holds = 0
            /\ wire'[p] = wire[p] /\ writer'[p] = writer[p] /\ outbound'[p] = outbound[p]
            /\ dispatched'[p] = dispatched[p] /\ viaGatt'[p] = viaGatt[p]
            /\ registered'[r] = registered[r] /\ registered'[p] = registered[p]
        BY <1>1, <1>12, <2>1 DEF TypeInv, Shape, ReaderEnds, runtime, At
      <3>2. QED
        BY <1>1, <1>2, <2>1, <3>1, ClosedOrder
    <2>2. CASE ~(s = r /\ events'[r] = Append(events[r], Closed))
      <3>1. /\ delivered'[r] = delivered[r] /\ events'[r] = events[r] /\ reader'[r] = reader[r]
            /\ wire'[p] = wire[p] /\ writer'[p] = writer[p] /\ outbound'[p] = outbound[p]
            /\ dispatched'[p] = dispatched[p] /\ viaGatt'[p] = viaGatt[p]
            /\ registered'[r] => registered[r]
            /\ registered'[p] => registered[p]
        BY <1>1, <1>12, <2>2 DEF TypeInv, Shape, ReaderEnds, runtime
      <3>2. QED
        BY <1>1, <1>2, <3>1, Untouched
    <2>3. QED
      BY <2>1, <2>2
  <1>13. CASE WriteDies(s)
    <2>1. /\ delivered'[r] = delivered[r] /\ events'[r] = events[r] /\ reader'[r] = reader[r]
          /\ wire'[p] = wire[p] /\ writer'[p] = writer[p] /\ outbound'[p] = outbound[p]
          /\ dispatched'[p] = dispatched[p] /\ viaGatt'[p] = viaGatt[p]
          /\ registered'[r] => registered[r]
          /\ registered'[p] => registered[p]
      BY <1>1, <1>13 DEF TypeInv, Shape, WriteDies, runtime
    <2>2. QED
      BY <1>1, <1>2, <2>1, Untouched
  <1>14. QED
    BY <1>3, <1>4, <1>5, <1>6, <1>7, <1>8, <1>9, <1>10, <1>11, <1>12, <1>13

(* The types and bounds are inductive: every action keeps them.            *)
THEOREM ChannelTypes == Spec => []TypeInv
  <1>1. Init => TypeInv
    BY InitTypeInv
  <1>2. TypeInv /\ [Next]_channelVars => TypeInv'
    <2>1. SUFFICES ASSUME TypeInv, [Next]_channelVars PROVE TypeInv'
      OBVIOUS
    <2>2. CASE UNCHANGED channelVars
      BY <2>1, <2>2 DEF channelVars, runtime, TypeInv, Shape, HoldsFrame, WithinBounds,
         OnlyDispatched
    <2>3. CASE Next
      <3>1. PICK s \in Side :
               \/ DispatchOutboundBatch(s)
               \/ SendViaSession(s)
               \/ HandleL2capRuntimeEvent(s)
               \/ WriterTakes(s)
               \/ WriterWrites(s)
               \/ WriterEnds(s)
               \/ ReaderTakes(s)
               \/ ReaderForwards(s)
               \/ ReaderSeesEnd(s)
               \/ ReaderEnds(s)
               \/ WriteDies(s)
        BY <2>3 DEF Next
      <3>2. QED
        BY <2>1, <3>1,
           DispatchOutboundBatchTypes,
           SendViaSessionTypes,
           HandleL2capRuntimeEventTypes,
           WriterTakesTypes,
           WriterWritesTypes,
           WriterEndsTypes,
           ReaderTakesTypes,
           ReaderForwardsTypes,
           ReaderSeesEndTypes,
           ReaderEndsTypes,
           WriteDiesTypes
    <2>4. QED
      BY <2>1, <2>2, <2>3
  <1>3. QED
    BY <1>1, <1>2, PTL DEF Spec

(* The queues, the wire and the task states stay in range and in bounds    *)
(* for every capacity and any number of payloads.                          *)
THEOREM TypeCorrect == Spec => []TypeOK
  BY ChannelTypes, TypeInvImpliesTypeOK, PTL

(* The frames of both directions stay numbered without a gap, through any  *)
(* failure of a write, a link or a task.                                   *)
THEOREM ChannelOrder == Spec => [](TypeInv /\ OrderInv)
  <1>1. Init => OrderInv
    BY InitOrder
  <1>2. TypeInv /\ OrderInv /\ [Next]_channelVars => OrderInv'
    <2>1. SUFFICES ASSUME TypeInv, OrderInv, [Next]_channelVars, NEW r \in Side
                   PROVE  Gapless(r)' /\ GattAfter(r)'
      BY DEF OrderInv
    <2>2. CASE UNCHANGED channelVars
      <3>1. PICK p \in Side : p = Peer[r]
        BY Pairs
      <3>2. QED
        BY <2>1, <2>2, <3>1, Untouched DEF OrderInv, channelVars, runtime
    <2>3. CASE Next
      BY <2>1, <2>3, StepOrder DEF Next
    <2>4. QED
      BY <2>1, <2>2, <2>3
  <1>3. QED
    BY <1>1, <1>2, ChannelTypes, PTL DEF Spec

(* Whatever fails, a runtime gets a gapless prefix of what its peer sent   *)
(* over the channel, and none of it was also sent through the fallback.    *)
THEOREM DeliveredGapless == Spec => []DeliveredInOrder
  <1>1. TypeInv /\ OrderInv => DeliveredInOrder
    <2>1. SUFFICES ASSUME TypeInv, OrderInv, NEW s \in Side, NEW i \in DOMAIN delivered[s]
                   PROVE  delivered[s][i] = i /\ i \notin viaGatt[Peer[s]]
      BY DEF DeliveredInOrder
    <2>2. PICK p \in Side : p = Peer[s]
      BY Pairs
    <2>3. delivered[s] \in Seq(Nat) /\ Len(delivered[s]) \in Nat
      BY <2>1, OfSide
    <2>4. i \in 1 .. Len(delivered[s])
      BY <2>1, <2>3
    <2>5. delivered[s][i] = i
      <3>1. delivered[s][i] = 0 + i
        BY <2>1, <2>4 DEF OrderInv, Gapless, DeliveredNext, Consecutive
      <3>2. QED
        BY <2>3, <2>4, <3>1
    <2>6. ASSUME i \in viaGatt[p] PROVE FALSE
      <3>1. Len(delivered[s]) < i
        BY <2>1, <2>2, <2>6 DEF OrderInv, GattAfter
      <3>2. QED
        BY <2>3, <2>4, <3>1
    <2>7. QED
      BY <2>2, <2>5, <2>6
  <1>2. QED
    BY <1>1, ChannelOrder, PTL

-----------------------------------------------------------------------------
(* What the tasks tell the runtime, and what back-pressure may not do.     *)

Reported(q) == \E i \in 1 .. Len(q) : q[i] = Closed

(* A runtime that still uses a channel one of whose tasks has ended has    *)
(* the closure in its event queue: it cannot keep a dead channel for want  *)
(* of an event, whichever task ended and however full the queue was.       *)
ClosureReported ==
    \A s \in Side :
        registered[s] /\ (writer[s].state = "done" \/ reader[s].state = "done") =>
            Reported(events[s])

LinkUp == \A s \in Side : ~writeDead[s]

(* On a link that has not failed nothing takes a runtime off the channel   *)
(* and no payload is lost: what was dispatched has been delivered or is    *)
(* under way, in one of the queues, on the wire or in a task that holds it *)
(* while it waits for room.                                                *)
LosslessWhileUp ==
    LinkUp => \A r \in Side : /\ registered[r] /\ viaGatt[r] = {}
                              /\ dispatched[Peer[r]] = Queued(r)

(* Why: no task has ended and no closure is queued.                        *)
Undisturbed ==
    LinkUp => \A s \in Side : /\ registered[s] /\ ~Reported(events[s])
                              /\ writer[s].state \in {"idle", "writing"}
                              /\ reader[s].state \in {"idle", "sending"}

(* A closure stays in the queue until it is taken, and none comes in with  *)
(* a frame.                                                                *)
LEMMA ReportedOps ==
    ASSUME NEW q \in Seq(Nat), NEW n \in Nat
    PROVE  /\ Reported(Append(q, n)) <=> Reported(q) \/ n = Closed
           /\ q # <<>> => (Reported(q) <=> Head(q) = Closed \/ Reported(Tail(q)))
<1>1. Reported(Append(q, n)) <=> Reported(q) \/ n = Closed
  <2>1. Len(q) \in Nat /\ \A i \in 1 .. Len(q) + 1 : i \in 1 .. Len(q) \/ i = Len(q) + 1
    OBVIOUS
  <2>2. \A i \in 1 .. Len(q) : i \in 1 .. Len(q) + 1
    BY <2>1
  <2>3. Len(q) + 1 \in 1 .. Len(q) + 1
    BY <2>1
  <2>4. QED BY <2>1, <2>2, <2>3, QueueOps DEF Reported
<1>2. ASSUME q # <<>>
      PROVE  Reported(q) <=> Head(q) = Closed \/ Reported(Tail(q))
  <2>1. /\ Len(q) \in Nat /\ Len(q) > 0 /\ Head(q) = q[1]
        /\ Len(Tail(q)) = Len(q) - 1
        /\ \A i \in 1 .. Len(q) - 1 : Tail(q)[i] = q[i + 1]
    BY <1>2, QueueOps
  <2>2. ASSUME NEW i \in 1 .. Len(q), q[i] = Closed, Head(q) # Closed
        PROVE  Reported(Tail(q))
    <3>1. i - 1 \in 1 .. Len(q) - 1 /\ (i - 1) + 1 = i
      BY <2>1, <2>2
    <3>2. Tail(q)[i - 1] = Closed
      BY <2>1, <2>2, <3>1
    <3>3. QED BY <2>1, <3>1, <3>2 DEF Reported
  <2>3. ASSUME NEW i \in 1 .. Len(q) - 1, Tail(q)[i] = Closed
        PROVE  Reported(q)
    <3>1. i + 1 \in 1 .. Len(q)
      BY <2>1
    <3>2. QED BY <2>1, <2>3, <3>1 DEF Reported
  <2>4. Head(q) = Closed => Reported(q)
    <3>1. 1 \in 1 .. Len(q)
      BY <2>1
    <3>2. QED BY <2>1, <3>1 DEF Reported
  <2>5. QED BY <2>1, <2>2, <2>3, <2>4 DEF Reported
<1>3. QED BY <1>1, <1>2

StepOf(s) ==
    \/ DispatchOutboundBatch(s) \/ SendViaSession(s) \/ HandleL2capRuntimeEvent(s)
    \/ WriterTakes(s) \/ WriterWrites(s) \/ WriterEnds(s)
    \/ ReaderTakes(s) \/ ReaderForwards(s) \/ ReaderSeesEnd(s) \/ ReaderEnds(s)
    \/ WriteDies(s)

(* What a step does to the tasks and the event queue of a side.            *)
LEMMA SideStep ==
    ASSUME TypeInv, NEW s \in Side, StepOf(s)
    PROVE  /\ \A t \in Side : t # s =>
                 /\ registered'[t] = registered[t] /\ events'[t] = events[t]
                 /\ writer'[t] = writer[t] /\ reader'[t] = reader[t]
           /\ \/ /\ events'[s] = events[s] /\ reader'[s] = reader[s]
                 /\ \/ registered'[s] = registered[s] /\ writer'[s] = writer[s]
                    \/ ~registered'[s] /\ writer'[s] = writer[s]
                       /\ (registered[s] => writer[s].state = "done")
                    \/ registered'[s] = registered[s] /\ writer'[s].state = "writing"
                    \/ registered'[s] = registered[s] /\ writer'[s].state = "idle"
                    \/ registered'[s] = registered[s] /\ writer'[s].state = "failed"
                       /\ writeDead[s]
                    \/ registered'[s] = registered[s] /\ ~registered[s]
              \/ /\ events[s] # <<>> /\ events'[s] = Tail(events[s])
                 /\ writer'[s] = writer[s] /\ reader'[s] = reader[s]
                 /\ registered'[s] <=> registered[s] /\ Head(events[s]) # Closed
              \/ /\ registered'[s] = registered[s] /\ writer[s].state = "failed"
                 /\ events'[s] = Append(events[s], Closed)
                 /\ writer'[s].state = "done" /\ reader'[s] = reader[s]
              \/ /\ registered'[s] = registered[s] /\ writer'[s] = writer[s]
                 /\ events'[s] = events[s] /\ reader'[s].state = "sending"
              \/ /\ registered'[s] = registered[s] /\ writer'[s] = writer[s]
                 /\ reader[s].holds # 0 /\ events'[s] = Append(events[s], reader[s].holds)
                 /\ reader'[s].state = "idle"
              \/ /\ registered'[s] = registered[s] /\ writer'[s] = writer[s]
                 /\ events'[s] = events[s] /\ reader'[s].state = "closing"
                 /\ writer[Peer[s]].state = "done" \/ writeDead[Peer[s]]
              \/ /\ registered'[s] = registered[s] /\ writer'[s] = writer[s]
                 /\ reader[s].state = "closing"
                 /\ events'[s] = Append(events[s], Closed)
                 /\ reader'[s].state = "done"
<1>0. /\ registered \in [Side -> BOOLEAN] /\ events \in [Side -> Seq(Nat)]
      /\ writer \in [Side -> WriterType] /\ reader \in [Side -> ReaderType]
  BY DEF TypeInv, Shape
<1>1. CASE DispatchOutboundBatch(s) \/ WriteDies(s)
  BY <1>1 DEF DispatchOutboundBatch, WriteDies, runtime
<1>2. CASE SendViaSession(s)
  BY <1>0, <1>2 DEF SendViaSession
<1>3. CASE HandleL2capRuntimeEvent(s)
  BY <1>0, <1>3 DEF HandleL2capRuntimeEvent
<1>4. CASE WriterTakes(s)
  BY <1>0, <1>4 DEF WriterTakes, runtime, At
<1>5. CASE WriterWrites(s)
  BY <1>0, <1>5 DEF WriterWrites, runtime, At
<1>6. CASE WriterEnds(s)
  BY <1>0, <1>6 DEF WriterEnds, runtime, At
<1>7. CASE ReaderTakes(s)
  BY <1>0, <1>7 DEF ReaderTakes, runtime, At
<1>8. CASE ReaderForwards(s)
  BY <1>0, <1>8 DEF ReaderForwards, runtime, At, TypeInv, HoldsFrame
<1>9. CASE ReaderSeesEnd(s)
  BY <1>0, <1>9 DEF ReaderSeesEnd, runtime, At
<1>10. CASE ReaderEnds(s)
  BY <1>0, <1>10 DEF ReaderEnds, runtime, At
<1>11. QED
  BY <1>1, <1>2, <1>3, <1>4, <1>5, <1>6, <1>7, <1>8, <1>9, <1>10 DEF StepOf

(* A task that ends reports it, and the report outlives every other step.  *)
LEMMA ClosureStep ==
    ASSUME TypeInv, ClosureReported, NEW s \in Side, StepOf(s)
    PROVE  ClosureReported'
<1> SUFFICES ASSUME NEW t \in Side, registered'[t],
                    writer'[t].state = "done" \/ reader'[t].state = "done"
             PROVE  Reported(events'[t])
  BY DEF ClosureReported
<1>1. events[t] \in Seq(Nat) /\ reader[t].holds \in Nat /\ Closed \in Nat
  BY OfSide DEF Closed
<1>2. registered[t] /\ (writer[t].state = "done" \/ reader[t].state = "done")
         => Reported(events[t])
  BY DEF ClosureReported
<1>3. CASE t # s
  BY <1>2, <1>3, SideStep
<1>4. CASE t = s
  <2>1. CASE Reported(events'[t])
    BY <2>1
  <2>2. CASE events'[s] = events[s] /\ registered[s]
             /\ (writer[s].state = "done" \/ reader[s].state = "done")
    BY <1>2, <1>4, <2>2
  <2>3. CASE events'[s] = Append(events[s], Closed)
    BY <1>1, <1>4, <2>3, ReportedOps
  <2>4. CASE /\ events[s] # <<>> /\ events'[s] = Tail(events[s])
             /\ writer'[s] = writer[s] /\ reader'[s] = reader[s]
             /\ registered[s] /\ Head(events[s]) # Closed
    BY <1>1, <1>2, <1>4, <2>4, ReportedOps
  <2>5. CASE /\ registered'[s] = registered[s] /\ writer'[s] = writer[s]
             /\ events'[s] = Append(events[s], reader[s].holds) /\ reader'[s].state = "idle"
    <3>1. Reported(events[s])
      BY <1>2, <1>4, <2>5
    <3>2. QED BY <1>1, <1>4, <2>5, <3>1, ReportedOps
  <2>6. QED BY <1>4, <2>2, <2>3, <2>4, <2>5, SideStep
<1>5. QED BY <1>3, <1>4

(* While the link carries every write, no task has a reason to end.        *)
LEMMA UndisturbedStep ==
    ASSUME TypeInv, Undisturbed, NEW s \in Side, StepOf(s)
    PROVE  Undisturbed'
<1> SUFFICES ASSUME LinkUp', NEW t \in Side
             PROVE  /\ registered'[t] /\ ~Reported(events'[t])
                    /\ writer'[t].state \in {"idle", "writing"}
                    /\ reader'[t].state \in {"idle", "sending"}
  BY DEF Undisturbed
<1>1. LinkUp
  BY DEF LinkUp, StepOf, DispatchOutboundBatch, SendViaSession, HandleL2capRuntimeEvent,
         WriterTakes, WriterWrites, WriterEnds, ReaderTakes, ReaderForwards, ReaderSeesEnd,
         ReaderEnds, WriteDies, TypeInv, Shape
<1>2. \A u \in Side : /\ registered[u] /\ ~Reported(events[u]) /\ ~writeDead[u]
                      /\ writer[u].state \in {"idle", "writing"}
                      /\ reader[u].state \in {"idle", "sending"}
  BY <1>1 DEF Undisturbed, LinkUp
<1>3. events[s] \in Seq(Nat) /\ reader[s].holds \in Nat /\ Peer[s] \in Side
  BY OfSide
<1>4. CASE t # s
  BY <1>2, <1>4, SideStep
<1>5. CASE t = s
  <2>1. CASE /\ events[s] # <<>> /\ events'[s] = Tail(events[s])
             /\ writer'[s] = writer[s] /\ reader'[s] = reader[s]
             /\ registered'[s] <=> registered[s] /\ Head(events[s]) # Closed
    BY <1>2, <1>3, <1>5, <2>1, ReportedOps
  <2>2. CASE /\ registered'[s] = registered[s] /\ writer'[s] = writer[s]
             /\ reader[s].holds # 0 /\ events'[s] = Append(events[s], reader[s].holds)
             /\ reader'[s].state = "idle"
    BY <1>2, <1>3, <1>5, <2>2, ReportedOps DEF Closed
  <2>3. CASE /\ events'[s] = events[s] /\ registered'[s] = registered[s]
             /\ writer'[s] = writer[s] \/ writer'[s].state \in {"writing", "idle"}
             /\ reader'[s] = reader[s] \/ reader'[s].state = "sending"
    BY <1>2, <1>5, <2>3
  <2>4. QED BY <1>2, <1>3, <2>1, <2>2, <2>3, SideStep
<1>6. QED BY <1>4, <1>5

(* A closed channel is always reported to the runtime that uses it, so     *)
(* that the downgrade to the fallback cannot be missed.                    *)
THEOREM ClosuresReported == Spec => []ClosureReported
<1>1. Init => ClosureReported
  BY DEF Init, ClosureReported, At
<1>2. TypeInv /\ ClosureReported /\ [Next]_channelVars => ClosureReported'
  <2> SUFFICES ASSUME TypeInv, ClosureReported, [Next]_channelVars PROVE ClosureReported'
    OBVIOUS
  <2>1. CASE UNCHANGED channelVars
    BY <2>1 DEF channelVars, runtime, ClosureReported
  <2>2. CASE Next
    BY <2>2, ClosureStep DEF Next, StepOf
  <2>3. QED BY <2>1, <2>2
<1>3. QED BY <1>1, <1>2, ChannelTypes, PTL DEF Spec

(* Full queues and a full wire delay payloads and lose none: without a     *)
(* failure of the link, every payload either side dispatches over the      *)
(* channel has arrived or is under way, for any capacities.                *)
THEOREM ChannelLossless == Spec => []LosslessWhileUp
<1>1. Init => Undisturbed
  <2>1. ~Reported(<<>>)
    BY DEF Reported
  <2>2. Init => \A s \in Side : registered[s]
    BY Zenon DEF Init
  <2>3. Init => \A s \in Side : events[s] = <<>>
    BY Zenon DEF Init
  <2>4. Init => \A s \in Side : writer[s] = At("idle", 0) /\ reader[s] = At("idle", 0)
    BY Zenon DEF Init
  <2>5. At("idle", 0).state = "idle"
    BY DEF At
  <2>6. ASSUME Init, NEW s \in Side
        PROVE  /\ registered[s] /\ ~Reported(events[s])
               /\ writer[s].state = "idle" /\ reader[s].state = "idle"
    BY <2>1, <2>2, <2>3, <2>4, <2>5, <2>6
  <2>7. QED BY <2>6 DEF Undisturbed
<1>2. TypeInv /\ Undisturbed /\ [Next]_channelVars => Undisturbed'
  <2> SUFFICES ASSUME TypeInv, Undisturbed, [Next]_channelVars PROVE Undisturbed'
    OBVIOUS
  <2>1. CASE UNCHANGED channelVars
    BY <2>1 DEF channelVars, runtime, Undisturbed, LinkUp
  <2>2. CASE Next
    BY <2>2, UndisturbedStep DEF Next, StepOf
  <2>3. QED BY <2>1, <2>2
<1>3. TypeInv /\ OrderInv /\ Undisturbed => LosslessWhileUp
  <2> SUFFICES ASSUME TypeInv, OrderInv, Undisturbed, LinkUp, NEW r \in Side
               PROVE  registered[r] /\ viaGatt[r] = {} /\ dispatched[Peer[r]] = Queued(r)
    BY DEF LosslessWhileUp
  <2>1. Peer[r] \in Side /\ Peer[Peer[r]] = r
    BY Pairs
  <2>2. \A u \in Side : registered[u] /\ Live(u) /\ writer[u].state \in {"idle", "writing"}
    BY DEF Undisturbed, Live, Reported
  <2>3. viaGatt[r] = {}
    BY <2>1, <2>2 DEF OrderInv, GattAfter
  <2>4. dispatched[Peer[r]] = Queued(r)
    BY <2>1, <2>2 DEF OrderInv, Gapless, OutboundNext
  <2>5. QED BY <2>2, <2>3, <2>4
<1>4. QED BY <1>1, <1>2, <1>3, ChannelOrder, PTL DEF Spec
=============================================================================
