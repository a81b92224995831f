-------------------------- MODULE ClientLoop_proofs --------------------------
(***************************************************************************)
(* Proofs about the client thread: every ingress event is accounted for    *)
(* and applied in order, a send goes to the runtime once and in order, a   *)
(* receipt means that it has gone, no caller is left without an answer to  *)
(* come, and the client never parks on work.                               *)
(***************************************************************************)
EXTENDS ClientLoop, FiniteSets, FiniteSetTheorems, TLAPS

(* A queue of numbers in order, and a queue that comes before another.     *)
Rising(q) == \A i, j \in 1 .. Len(q) : i < j => q[i] < q[j]
Below(q, r) == \A i \in 1 .. Len(q), j \in 1 .. Len(r) : q[i] < r[j]
AllBelow(q, n) == \A i \in 1 .. Len(q) : q[i] < n
SetBelow(S, r) == \A x \in S, j \in 1 .. Len(r) : x < r[j]

-----------------------------------------------------------------------------
(* Counters are numbers, and the runtime's queue holds batches.            *)
Counters ==
    /\ emitted \in Nat /\ notifier \in Nat /\ sends \in Nat /\ drained \in Nat
    /\ snapshot \in Nat /\ work \in Nat /\ dropped \in Nat /\ reported \in Nat
    /\ runtimeQ \in Seq(Seq(Nat))
    /\ back.send <= sends

(* What a round holds, it holds only between its own steps.                *)
RoundHolds ==
    /\ pending # <<>> => pc = "ingest"
    /\ ingested # <<>> => pc \in {"flush", "dispatch", "finish"}
    /\ flushing # <<>> => pc \in {"dispatch", "finish"} /\ outbound = <<>>

(* Ingress events stay in their order of arrival, wherever they are.       *)
IngressOrdered ==
    /\ Rising(applied) /\ Rising(ingested) /\ Rising(pending) /\ Rising(mailbox)
    /\ Below(applied, ingested) /\ Below(applied, pending) /\ Below(applied, mailbox)
    /\ Below(ingested, mailbox) /\ Below(pending, mailbox)
    /\ SetBelow(lost, ingested) /\ SetBelow(lost, pending) /\ SetBelow(lost, mailbox)

IngressCounted ==
    emitted = Len(mailbox) + Len(pending) + Len(ingested) + Len(applied)
                  + Cardinality(lost) + dropped + reported

(* So do sends, from the command queue to the runtime.                     *)
EgressOrdered ==
    /\ Rising(handed) /\ Rising(flushing) /\ Rising(outbound) /\ Rising(commands)
    /\ Below(handed, outbound) /\ Below(handed, commands)
    /\ Below(outbound, commands) /\ Below(flushing, commands)
    /\ pc = "dispatch" => Below(handed, flushing)
    /\ \A i \in 1 .. Len(commands) : back.send < commands[i]

(* A send that was refused is nowhere, one that is queued is unanswered,   *)
(* and a receipt is given for what was handed over.                        *)
RepliesRight ==
    /\ \A n \in 1 .. MaxSends : n > sends => replies[n] = "none"
    /\ \A i \in 1 .. Len(commands) : replies[commands[i]] = "none"
    /\ \A i \in 1 .. Len(handed) : replies[handed[i]] # "refused"
    /\ \A i \in 1 .. Len(outbound) : replies[outbound[i]] # "refused"
    /\ \A i \in 1 .. Len(flushing) : replies[flushing[i]] # "refused"
    /\ ReceiptMeansHandedOver

(* The send whose caller waits for the round is on its way, and has been   *)
(* handed over when the round ends.                                        *)
RoundCarriesSend ==
    back.send # 0 =>
        /\ pc \in {"snapshot", "stage", "ingest", "flush"} =>
              back.send \in ToSet(outbound) \cup ToSet(handed)
        /\ pc = "dispatch" => back.send \in ToSet(flushing) \cup ToSet(handed)
        /\ pc = "finish" => back.send \in ToSet(handed)

IngressInv == TypeOK /\ Counters /\ RoundHolds /\ IngressOrdered /\ IngressCounted
EgressInv == EgressOrdered /\ RepliesRight /\ RoundCarriesSend
ClientInv == IngressInv /\ EgressInv

-----------------------------------------------------------------------------
(* Queues of numbers *)

(* A queue over a set is a queue over a larger one.                        *)
LEMMA SeqWiden ==
    ASSUME NEW S, NEW T, S \subseteq T, NEW q \in Seq(S)
    PROVE  q \in Seq(T)
  OBVIOUS

(* The set of a queue's elements.                                          *)
LEMMA ToSetMembers ==
    ASSUME NEW S, NEW q \in Seq(S)
    PROVE  /\ \A x : x \in ToSet(q) <=> \E i \in 1 .. Len(q) : q[i] = x
           /\ ToSet(q) \subseteq S
  BY DEF ToSet

(* Appending and joining keep every element.                               *)
LEMMA ToSetGrows ==
    ASSUME NEW S, NEW q \in Seq(S), NEW r \in Seq(S), NEW x \in S
    PROVE  /\ ToSet(q) \subseteq ToSet(Append(q, x))
           /\ x \in ToSet(Append(q, x))
           /\ ToSet(q \o r) = ToSet(q) \cup ToSet(r)
<1>1. ToSet(q) \subseteq ToSet(Append(q, x)) /\ x \in ToSet(Append(q, x))
  <2>1. /\ Len(Append(q, x)) = Len(q) + 1
        /\ \A i \in 1 .. Len(q) : Append(q, x)[i] = q[i]
        /\ Append(q, x)[Len(q) + 1] = x
        /\ DOMAIN Append(q, x) = 1 .. Len(q) + 1 /\ DOMAIN q = 1 .. Len(q)
    OBVIOUS
  <2>2. QED BY <2>1 DEF ToSet
<1>2. ToSet(q \o r) = ToSet(q) \cup ToSet(r)
  <2>1. /\ DOMAIN (q \o r) = 1 .. Len(q) + Len(r)
        /\ DOMAIN q = 1 .. Len(q) /\ DOMAIN r = 1 .. Len(r)
        /\ \A i \in 1 .. Len(q) : (q \o r)[i] = q[i]
        /\ \A i \in 1 .. Len(r) : (q \o r)[Len(q) + i] = r[i]
        /\ \A i \in 1 .. Len(q) + Len(r) :
              i \in 1 .. Len(q) \/ (i - Len(q) \in 1 .. Len(r) /\ i = Len(q) + (i - Len(q)))
    OBVIOUS
  <2>2. ToSet(q) \cup ToSet(r) \subseteq ToSet(q \o r)
    <3>1. \A i \in 1 .. Len(q) : i \in DOMAIN (q \o r)
      BY <2>1
    <3>2. \A i \in 1 .. Len(r) : Len(q) + i \in DOMAIN (q \o r)
      BY <2>1
    <3>3. QED BY <2>1, <3>1, <3>2 DEF ToSet
  <2>3. ToSet(q \o r) \subseteq ToSet(q) \cup ToSet(r)
    <3>1. ASSUME NEW i \in 1 .. Len(q) + Len(r)
          PROVE  (q \o r)[i] \in ToSet(q) \cup ToSet(r)
      <4>1. CASE i \in 1 .. Len(q)
        BY <2>1, <4>1 DEF ToSet
      <4>2. CASE i - Len(q) \in 1 .. Len(r) /\ i = Len(q) + (i - Len(q))
        <5>1. (q \o r)[i] = r[i - Len(q)]
          BY <2>1, <4>2
        <5>2. QED BY <2>1, <4>2, <5>1 DEF ToSet
      <4>3. QED BY <2>1, <4>1, <4>2
    <3>2. QED BY <2>1, <3>1 DEF ToSet
  <2>4. QED BY <2>2, <2>3
<1>3. QED BY <1>1, <1>2

(* Appending what is above keeps a queue in order.                         *)
LEMMA AppendRising ==
    ASSUME NEW q \in Seq(Nat), NEW x \in Nat, Rising(q), AllBelow(q, x)
    PROVE  Rising(Append(q, x))
  BY DEF Rising, AllBelow

(* A new number above a queue keeps it above what was below it.            *)
LEMMA AppendBelow ==
    ASSUME NEW p \in Seq(Nat), NEW q \in Seq(Nat), NEW x \in Nat
    PROVE  /\ Below(p, q) /\ AllBelow(p, x) => Below(p, Append(q, x))
           /\ Below(q, p) /\ (\A j \in 1 .. Len(p) : x < p[j]) => Below(Append(q, x), p)
<1> DEFINE r == Append(q, x)
<1>1. \A i \in 1 .. Len(r) : IF i \in 1 .. Len(q) THEN r[i] = q[i] ELSE r[i] = x
  OBVIOUS
<1> HIDE DEF r
<1>2. Below(p, q) /\ AllBelow(p, x) => Below(p, r)
  BY <1>1 DEF Below, AllBelow
<1>3. Below(q, p) /\ (\A j \in 1 .. Len(p) : x < p[j]) => Below(r, p)
  BY <1>1 DEF Below
<1>4. QED BY <1>2, <1>3 DEF r

(* The tail of a queue in order is in order, and its head is below it.     *)
LEMMA TailRising ==
    ASSUME NEW q \in Seq(Nat), q # <<>>, Rising(q)
    PROVE  /\ Tail(q) \in Seq(Nat) /\ Head(q) \in Nat
           /\ Rising(Tail(q))
           /\ \A j \in 1 .. Len(Tail(q)) : Head(q) < Tail(q)[j]
           /\ \A n : (\A i \in 1 .. Len(q) : n < q[i]) =>
                 n < Head(q) /\ \A i \in 1 .. Len(Tail(q)) : n < Tail(q)[i]
<1>1. /\ Len(Tail(q)) = Len(q) - 1 /\ Len(q) \in Nat /\ Len(q) > 0
      /\ \A i \in 1 .. Len(Tail(q)) : Tail(q)[i] = q[i + 1] /\ i + 1 \in 1 .. Len(q)
      /\ Head(q) = q[1]
      /\ Tail(q) \in Seq(Nat) /\ Head(q) \in Nat
  OBVIOUS
<1>2. Rising(Tail(q))
  BY <1>1 DEF Rising
<1>3. \A j \in 1 .. Len(Tail(q)) : Head(q) < Tail(q)[j]
  BY <1>1 DEF Rising
<1>4. ASSUME NEW n, \A i \in 1 .. Len(q) : n < q[i]
      PROVE  n < Head(q) /\ \A i \in 1 .. Len(Tail(q)) : n < Tail(q)[i]
  BY <1>1, <1>4
<1>5. QED BY <1>1, <1>2, <1>3, <1>4

(* What is below a queue is below its head and its tail.                   *)
LEMMA TailBelow ==
    ASSUME NEW p \in Seq(Nat), NEW q \in Seq(Nat), q # <<>>, Below(p, q)
    PROVE  Below(p, Tail(q)) /\ AllBelow(p, Head(q))
<1>1. /\ Len(Tail(q)) = Len(q) - 1 /\ Len(q) \in Nat /\ Len(q) > 0
      /\ \A i \in 1 .. Len(Tail(q)) : Tail(q)[i] = q[i + 1] /\ i + 1 \in 1 .. Len(q)
      /\ Head(q) = q[1]
  OBVIOUS
<1>2. QED BY <1>1 DEF Below, AllBelow

(* Joining two queues in order, the first below the second.                *)
LEMMA ConcatIndex ==
    ASSUME NEW S, NEW q \in Seq(S), NEW r \in Seq(S)
    PROVE  /\ q \o r \in Seq(S)
           /\ Len(q \o r) = Len(q) + Len(r)
           /\ \A i \in 1 .. Len(q \o r) :
                 \/ i \in 1 .. Len(q) /\ (q \o r)[i] = q[i]
                 \/ i > Len(q) /\ i - Len(q) \in 1 .. Len(r) /\ (q \o r)[i] = r[i - Len(q)]
  OBVIOUS

(* Two queues in order, one below the other, are in order together.        *)
LEMMA ConcatRising ==
    ASSUME NEW q \in Seq(Nat), NEW r \in Seq(Nat), Rising(q), Rising(r), Below(q, r)
    PROVE  Rising(q \o r)
<1> DEFINE s == q \o r
<1> SUFFICES ASSUME NEW i \in 1 .. Len(s), NEW j \in 1 .. Len(s), i < j
             PROVE  s[i] < s[j]
  BY DEF Rising
<1>1. \A k \in 1 .. Len(s) :
          \/ k \in 1 .. Len(q) /\ s[k] = q[k]
          \/ k > Len(q) /\ k - Len(q) \in 1 .. Len(r) /\ s[k] = r[k - Len(q)]
  BY ConcatIndex
<1>2. Len(q) \in Nat /\ Len(r) \in Nat /\ i \in Nat /\ j \in Nat
  BY ConcatIndex
<1>3. /\ \/ i \in 1 .. Len(q) /\ s[i] = q[i]
         \/ i > Len(q) /\ i - Len(q) \in 1 .. Len(r) /\ s[i] = r[i - Len(q)]
      /\ \/ j \in 1 .. Len(q) /\ s[j] = q[j]
         \/ j > Len(q) /\ j - Len(q) \in 1 .. Len(r) /\ s[j] = r[j - Len(q)]
  BY <1>1
<1> HIDE DEF s
<1>4. CASE i \in 1 .. Len(q) /\ s[i] = q[i] /\ j \in 1 .. Len(q) /\ s[j] = q[j]
  BY <1>4 DEF Rising
<1>5. CASE /\ i \in 1 .. Len(q) /\ s[i] = q[i]
           /\ j - Len(q) \in 1 .. Len(r) /\ s[j] = r[j - Len(q)]
  BY <1>5 DEF Below
<1>6. CASE /\ i - Len(q) \in 1 .. Len(r) /\ s[i] = r[i - Len(q)]
           /\ j - Len(q) \in 1 .. Len(r) /\ s[j] = r[j - Len(q)]
  <2>1. i - Len(q) < j - Len(q)
    BY <1>2
  <2>2. QED BY <1>6, <2>1 DEF Rising
<1>7. QED BY <1>2, <1>3, <1>4, <1>5, <1>6

(* Two queues below a third, or above it, are so together.                 *)
LEMMA ConcatBelow ==
    ASSUME NEW q \in Seq(Nat), NEW r \in Seq(Nat), NEW t \in Seq(Nat)
    PROVE  /\ Below(q, t) /\ Below(r, t) => Below(q \o r, t)
           /\ Below(t, q) /\ Below(t, r) => Below(t, q \o r)
           /\ \A S : SetBelow(S, q) /\ SetBelow(S, r) => SetBelow(S, q \o r)
<1> DEFINE s == q \o r
<1>1. \A k \in 1 .. Len(s) :
          \/ k \in 1 .. Len(q) /\ s[k] = q[k]
          \/ k > Len(q) /\ k - Len(q) \in 1 .. Len(r) /\ s[k] = r[k - Len(q)]
  BY ConcatIndex
<1> HIDE DEF s
<1>2. /\ Below(q, t) /\ Below(r, t) => Below(s, t)
      /\ Below(t, q) /\ Below(t, r) => Below(t, s)
  BY <1>1 DEF Below
<1>3. \A S : SetBelow(S, q) /\ SetBelow(S, r) => SetBelow(S, s)
  BY <1>1 DEF SetBelow
<1>4. QED BY <1>2, <1>3 DEF s

(* A queue in order has as many elements as places.                        *)
LEMMA RisingCardinality ==
    ASSUME NEW q \in Seq(Nat), Rising(q)
    PROVE  IsFiniteSet(ToSet(q)) /\ Cardinality(ToSet(q)) = Len(q)
<1>1. Len(q) \in Nat /\ DOMAIN q = 1 .. Len(q)
  OBVIOUS
<1>2. IsFiniteSet(1 .. Len(q)) /\ Cardinality(1 .. Len(q)) = Len(q)
  <2>1. /\ IsFiniteSet(1 .. Len(q))
        /\ Cardinality(1 .. Len(q)) = IF 1 > Len(q) THEN 0 ELSE Len(q) - 1 + 1
    BY <1>1, FS_Interval
  <2>2. QED BY <1>1, <2>1
<1>3. q \in Bijection(1 .. Len(q), ToSet(q))
  <2>1. q \in [1 .. Len(q) -> ToSet(q)]
    BY <1>1 DEF ToSet
  <2>2. \A a, b \in 1 .. Len(q) : a # b => q[a] # q[b]
    <3>1. SUFFICES ASSUME NEW a \in 1 .. Len(q), NEW b \in 1 .. Len(q), a # b
                   PROVE  q[a] # q[b]
      OBVIOUS
    <3>2. a < b \/ b < a
      BY <3>1
    <3>3. q[a] \in Nat /\ q[b] \in Nat
      BY <3>1
    <3>4. QED BY <3>1, <3>2, <3>3 DEF Rising
  <2>3. \A x \in ToSet(q) : \E a \in 1 .. Len(q) : q[a] = x
    BY <1>1 DEF ToSet
  <2>4. QED BY <2>1, <2>2, <2>3 DEF Bijection, Injection, Surjection, IsInjective
<1>4. ExistsBijection(1 .. Len(q), ToSet(q))
  BY <1>3 DEF ExistsBijection
<1>5. QED BY <1>2, <1>4, FS_Bijection

-----------------------------------------------------------------------------
(* Types, in three groups of variables *)

ingressVars == <<emitted, mailbox, notifier, pending, ingested, dropped, applied, reported, lost>>
egressVars == <<sends, commands, outbound, flushing, runtimeQ, handed, replies>>
loopVars == <<pc, back, drained, followUp, snapshot, hint, work>>

IngressTypes ==
    /\ emitted \in Nat /\ notifier \in Nat /\ dropped \in Nat /\ reported \in Nat
    /\ mailbox \in Seq(1 .. emitted) /\ Len(mailbox) <= MailboxCapacity
    /\ pending \in Seq(1 .. emitted) /\ Len(pending) <= InboundCapacity
    /\ ingested \in Seq(1 .. emitted)
    /\ applied \in Seq(1 .. emitted)
    /\ lost \subseteq 1 .. emitted

EgressTypes ==
    /\ sends \in Nat /\ sends <= MaxSends
    /\ commands \in Seq(1 .. sends)
    /\ outbound \in Seq(1 .. sends) /\ Len(outbound) <= DispatchCapacity
    /\ flushing \in Seq(1 .. sends)
    /\ runtimeQ \in Seq(Seq(Nat)) /\ Len(runtimeQ) <= RuntimeCapacity
    /\ handed \in Seq(1 .. sends)
    /\ replies \in [1 .. MaxSends -> {"none", "ok", "refused", "failed"}]

LoopTypes ==
    /\ pc \in {"top", "drain", "snapshot", "stage", "ingest", "flush", "dispatch",
               "finish", "wait", "waitError", "parked", "parkedError", "stopped"}
    /\ back \in [to : {"wait", "drain", "top"}, send : 0 .. MaxSends]
    /\ back.send <= sends
    /\ drained \in Nat /\ drained <= DrainMax
    /\ snapshot \in Nat /\ snapshot <= notifier
    /\ hint \in Hint
    /\ work \in Nat /\ work <= MaxWork

(* The constants are numbers, and the capacities of the code positive.     *)
LEMMA Capacities ==
    /\ MaxEvents \in Nat /\ MaxSends \in Nat /\ MaxWork \in Nat /\ InboundCapacity \in Nat
    /\ MailboxCapacity \in Nat /\ DispatchCapacity \in Nat /\ DispatchCapacity > 0
    /\ RuntimeCapacity \in Nat /\ RuntimeCapacity > 0
    /\ DrainMax \in Nat /\ DrainMax > 0
  BY ClientAssumption

(* The types, by the side of the task they are about.                      *)
LEMMA TypeGroups ==
    TypeOK /\ Counters <=> IngressTypes /\ EgressTypes /\ LoopTypes /\ runtimeUp \in BOOLEAN
  BY DEF TypeOK, Counters, IngressTypes, EgressTypes, LoopTypes

(* Which steps leave the ingress and the egress side alone.                *)
LEMMA Frames ==
    /\ \/ RuntimeTakes \/ RuntimeStops \/ Send \/ RequestRuntimeShutdown \/ Top
       \/ DrainReadyCommands \/ TakeSnapshot \/ FlushOutbound \/ WaitForWork \/ WaitAfterBridgeError \/ Park
       \/ UNCHANGED clientVars
       => UNCHANGED ingressVars
    /\ \/ EmitIngress \/ RequestRuntimeShutdown \/ Top \/ TakeSnapshot
       \/ StageTransportIngress \/ WaitForWork \/ WaitAfterBridgeError \/ UNCHANGED clientVars
       => UNCHANGED egressVars
    /\ \/ EmitIngress \/ RequestRuntimeShutdown \/ RuntimeTakes \/ RuntimeStops \/ Send
       \/ UNCHANGED clientVars
       => UNCHANGED loopVars
<1> USE DEF arrivals, loop, bridge, egress, outcome, clientVars, ingressVars, egressVars, loopVars
<1>1. EmitIngress => UNCHANGED egressVars /\ UNCHANGED loopVars
  BY DEF EmitIngress
<1>2. RuntimeTakes \/ RuntimeStops => UNCHANGED ingressVars /\ UNCHANGED loopVars
  BY DEF RuntimeTakes, RuntimeStops
<1>3. Send => UNCHANGED ingressVars /\ UNCHANGED loopVars
  BY DEF Send
<1>4. RequestRuntimeShutdown =>
          UNCHANGED ingressVars /\ UNCHANGED egressVars /\ UNCHANGED loopVars
  BY DEF RequestRuntimeShutdown
<1>5. Top => UNCHANGED ingressVars /\ UNCHANGED egressVars
  BY DEF Top
<1>6. DrainReadyCommands => UNCHANGED ingressVars
  BY DEF DrainReadyCommands
<1>7. TakeSnapshot => UNCHANGED ingressVars /\ UNCHANGED egressVars
  BY DEF TakeSnapshot
<1>8. StageTransportIngress => UNCHANGED egressVars
  BY DEF StageTransportIngress
<1>9. FlushOutbound => UNCHANGED ingressVars
  BY DEF FlushOutbound
<1>10. WaitForWork => UNCHANGED ingressVars /\ UNCHANGED egressVars
  BY DEF WaitForWork
<1>11. WaitAfterBridgeError => UNCHANGED ingressVars /\ UNCHANGED egressVars
  BY DEF WaitAfterBridgeError
<1>12. Park => UNCHANGED ingressVars
  BY DEF Park
<1>13. UNCHANGED clientVars => UNCHANGED ingressVars /\ UNCHANGED egressVars /\ UNCHANGED loopVars
  OBVIOUS
<1>14. QED
  BY <1>1, <1>2, <1>3, <1>4, <1>5, <1>6, <1>7, <1>8, <1>9, <1>10, <1>11, <1>12, <1>13

(* What staging keeps of the mailbox is a prefix that fits.                *)
Kept == SubSeq(mailbox, 1, IF Room < Len(mailbox) THEN Room ELSE Len(mailbox))

(* What a round stages is a prefix of the mailbox that fits.               *)
LEMMA KeptPrefix ==
    ASSUME IngressTypes
    PROVE  /\ Kept \in Seq(1 .. emitted)
           /\ Len(Kept) \in Nat /\ Len(Kept) <= Len(mailbox)
           /\ Len(pending) + Len(Kept) <= InboundCapacity
           /\ \A i \in 1 .. Len(Kept) : Kept[i] = mailbox[i]
<1>1. Room \in Nat /\ Len(mailbox) \in Nat /\ Len(pending) \in Nat
  BY Capacities DEF IngressTypes, Room
<1>2. PICK n \in Nat : /\ n = (IF Room < Len(mailbox) THEN Room ELSE Len(mailbox))
                        /\ n <= Room /\ n <= Len(mailbox)
  BY <1>1
<1>3. /\ Kept = SubSeq(mailbox, 1, n)
      /\ Kept \in Seq(1 .. emitted)
      /\ Len(Kept) = n
      /\ \A i \in 1 .. Len(Kept) : Kept[i] = mailbox[i]
  BY <1>1, <1>2 DEF Kept, IngressTypes
<1>4. Len(pending) + n <= InboundCapacity
  BY <1>1, <1>2, Capacities DEF Room
<1>5. QED BY <1>1, <1>2, <1>3, <1>4

(* The ingress variables stay in range.                                    *)
LEMMA IngressTypeStep ==
    ASSUME IngressTypes, [Next]_clientVars
    PROVE  IngressTypes'
<1>1. CASE UNCHANGED ingressVars
  BY <1>1 DEF ingressVars, IngressTypes
<1>2. CASE EmitIngress
  <2>1. /\ emitted' = emitted + 1 /\ notifier' = notifier + 1
        /\ mailbox' = Append(mailbox, emitted + 1) /\ Len(mailbox) < MailboxCapacity
        /\ UNCHANGED <<pending, ingested, dropped, applied, reported, lost>>
    BY <1>2 DEF EmitIngress, bridge, outcome
  <2>2. 1 .. emitted \subseteq 1 .. emitted' /\ emitted + 1 \in 1 .. emitted'
    BY <2>1 DEF IngressTypes
  <2>3. mailbox \in Seq(1 .. emitted')
    BY <2>2, SeqWiden DEF IngressTypes
  <2>4. mailbox' \in Seq(1 .. emitted') /\ Len(mailbox') <= MailboxCapacity
    BY <2>1, <2>2, <2>3, Capacities
  <2>5. /\ pending' \in Seq(1 .. emitted') /\ ingested' \in Seq(1 .. emitted')
        /\ applied' \in Seq(1 .. emitted') /\ lost' \subseteq 1 .. emitted'
    BY <2>1, <2>2, SeqWiden DEF IngressTypes
  <2>6. QED BY <2>1, <2>4, <2>5 DEF IngressTypes
<1>3. CASE StageTransportIngress
  <2>1. /\ mailbox' = <<>>
        /\ pending' = pending \o Kept
        /\ dropped' = dropped + (Len(mailbox) - Len(Kept))
        /\ UNCHANGED <<emitted, notifier, ingested, applied, reported, lost>>
    BY <1>3 DEF StageTransportIngress, CountDropped, Kept, outcome
  <2>2. pending' \in Seq(1 .. emitted) /\ Len(pending') <= InboundCapacity
    BY <2>1, KeptPrefix DEF IngressTypes
  <2>3. dropped' \in Nat
    BY <2>1, KeptPrefix DEF IngressTypes
  <2>4. QED BY <2>1, <2>2, <2>3, Capacities DEF IngressTypes
<1>4. CASE IngestAndAdvanceRouter
  <2>1. /\ pending' = <<>>
        /\ ingested' \in {pending, ingested}
        /\ lost' \in {lost, lost \cup ToSet(pending)}
        /\ UNCHANGED <<emitted, notifier, mailbox, dropped, applied, reported>>
    BY <1>4 DEF IngestAndAdvanceRouter, RoundFails, arrivals, outcome
  <2>2. ToSet(pending) \subseteq 1 .. emitted
    BY ToSetMembers DEF IngressTypes
  <2>3. QED BY <2>1, <2>2, Capacities DEF IngressTypes
<1>5. CASE Dispatch
  <2>1. /\ ingested' = <<>> \/ ingested' = ingested
        /\ lost' \in {lost, lost \cup ToSet(ingested)}
        /\ UNCHANGED <<emitted, notifier, mailbox, pending, dropped, applied, reported>>
    BY <1>5 DEF Dispatch, RoundFails, arrivals, outcome
  <2>2. ToSet(ingested) \subseteq 1 .. emitted
    BY ToSetMembers DEF IngressTypes
  <2>3. ingested' \in Seq(1 .. emitted) /\ lost' \subseteq 1 .. emitted
    <3>1. <<>> \in Seq(1 .. emitted) /\ ingested \in Seq(1 .. emitted) /\ lost \subseteq 1 .. emitted
      BY DEF IngressTypes
    <3>2. ingested' \in Seq(1 .. emitted)
      BY <2>1, <3>1
    <3>3. lost' \subseteq 1 .. emitted
      BY <2>1, <2>2, <3>1
    <3>4. QED BY <3>2, <3>3
  <2>4. QED BY <2>1, <2>3 DEF IngressTypes
<1>6. CASE FinishRound
  <2>1. /\ reported' = reported + dropped /\ dropped' = 0
        /\ applied' = applied \o ingested /\ ingested' = <<>>
        /\ UNCHANGED <<emitted, notifier, mailbox, pending, lost>>
    BY <1>6 DEF FinishRound, arrivals
  <2>2. QED BY <2>1 DEF IngressTypes
<1>7. QED BY <1>1, <1>2, <1>3, <1>4, <1>5, <1>6, Frames DEF Next, ClientStep

(* What handling a command does to the queues and the replies.             *)
LEMMA HandleCommandEffect ==
    ASSUME EgressTypes, LoopTypes, commands # <<>>, commands' = Tail(commands),
           NEW to \in {"drain", "top"}, HandleCommand(Head(commands), to)
    PROVE  /\ commands' \in Seq(1 .. sends)
           /\ Head(commands) \in 1 .. sends
           /\ \/ /\ replies' = [replies EXCEPT ![Head(commands)] = "refused"]
                 /\ pc' = to
                 /\ UNCHANGED <<outbound, back, followUp>>
              \/ /\ outbound' = Append(outbound, Head(commands))
                 /\ Len(outbound') <= DispatchCapacity
                 /\ pc' = "snapshot"
                 /\ back' = [to |-> to, send |-> Head(commands)]
                 /\ followUp' = FALSE
                 /\ UNCHANGED replies
<1>1. commands' \in Seq(1 .. sends) /\ Head(commands) \in 1 .. sends
  BY DEF EgressTypes
<1>2. Len(outbound) < DispatchCapacity => Len(Append(outbound, Head(commands))) <= DispatchCapacity
  BY <1>1, Capacities DEF EgressTypes
<1>3. QED BY <1>1, <1>2 DEF HandleCommand, Round

(* The round's error goes to the caller that waits for it.                 *)
LEMMA RoundFailsEffect ==
    ASSUME EgressTypes, LoopTypes, RoundFails
    PROVE  /\ pc' \in {"waitError", "wait", "drain", "top"}
           /\ \A n \in 1 .. MaxSends :
                 replies'[n] = IF n = back.send THEN "failed" ELSE replies[n]
           /\ replies' \in [1 .. MaxSends -> {"none", "ok", "refused", "failed"}]
<1>1. back.send \in 0 .. MaxSends /\ back.to \in {"wait", "drain", "top"}
  BY DEF LoopTypes
<1>2. CASE back.send = 0
  BY <1>1, <1>2, Capacities DEF RoundFails, EgressTypes
<1>3. CASE back.send # 0
  BY <1>1, <1>3, Capacities DEF RoundFails, EgressTypes
<1>4. QED BY <1>2, <1>3

(* So does the end of the round, if no follow-up round is run.             *)
LEMMA FinishEffect ==
    ASSUME EgressTypes, LoopTypes, FinishRound
    PROVE  /\ pc = "finish"
           /\ pc' \in {"snapshot", "wait", "drain", "top"}
           /\ pc' = "snapshot" => replies' = replies
           /\ \/ replies' = replies
              \/ /\ back.send # 0
                 /\ replies' = [replies EXCEPT ![back.send] = "ok"]
           /\ replies' \in [1 .. MaxSends -> {"none", "ok", "refused", "failed"}]
           /\ work' \in Nat /\ work' <= MaxWork
           /\ flushing' = <<>>
           /\ UNCHANGED <<sends, commands, outbound, runtimeQ, handed, back, drained, snapshot,
                          hint, notifier>>
<1>1. back.send \in 0 .. MaxSends /\ back.to \in {"wait", "drain", "top"}
  BY DEF LoopTypes
<1>2. PICK routerChanged \in BOOLEAN :
         /\ pc = "finish"
         /\ IF routerChanged THEN work > 0 /\ work' = work - 1 ELSE UNCHANGED work
         /\ flushing' = <<>>
         /\ \/ pc' = "snapshot" /\ UNCHANGED replies
            \/ /\ replies' = IF back.send = 0 THEN replies
                              ELSE [replies EXCEPT ![back.send] = "ok"]
               /\ pc' \in {"top", back.to}
         /\ UNCHANGED <<arrivals, back, drained, snapshot, hint, outbound, runtimeQ, handed>>
  BY DEF FinishRound
<1>3. work' \in Nat /\ work' <= MaxWork
  BY <1>2, Capacities DEF LoopTypes
<1>4. UNCHANGED <<sends, commands, notifier>>
  BY <1>2 DEF arrivals
<1>5. \/ replies' = replies
      \/ back.send # 0 /\ replies' = [replies EXCEPT ![back.send] = "ok"]
  BY <1>2
<1>6. replies' \in [1 .. MaxSends -> {"none", "ok", "refused", "failed"}]
  BY <1>5 DEF EgressTypes
<1>7. pc' \in {"snapshot", "wait", "drain", "top"} /\ (pc' = "snapshot" => replies' = replies)
  BY <1>1, <1>2
<1>8. QED BY <1>2, <1>3, <1>4, <1>5, <1>6, <1>7

(* The egress variables stay in range.                                     *)
LEMMA EgressTypeStep ==
    ASSUME EgressTypes, LoopTypes, [Next]_clientVars
    PROVE  EgressTypes'
<1>1. CASE UNCHANGED egressVars
  BY <1>1 DEF egressVars, EgressTypes
<1>2. CASE RuntimeTakes
  <2>1. /\ runtimeQ # <<>> /\ runtimeQ' = Tail(runtimeQ)
        /\ UNCHANGED <<sends, commands, outbound, flushing, handed, replies>>
    BY <1>2 DEF RuntimeTakes, arrivals, outcome
  <2>2. runtimeQ' \in Seq(Seq(Nat)) /\ Len(runtimeQ') <= RuntimeCapacity
    BY <2>1, Capacities DEF EgressTypes
  <2>3. QED BY <2>1, <2>2 DEF EgressTypes
<1>12. CASE RuntimeStops
  <2>1. runtimeQ' = <<>> /\ UNCHANGED <<sends, commands, outbound, flushing, handed, replies>>
    BY <1>12 DEF RuntimeStops, outcome
  <2>2. QED BY <2>1, Capacities DEF EgressTypes
<1>3. CASE Send
  <2>1. /\ sends < MaxSends /\ sends' = sends + 1
        /\ commands' = Append(commands, sends + 1)
        /\ UNCHANGED <<outbound, flushing, runtimeQ, handed, replies>>
    BY <1>3 DEF Send, egress, outcome
  <2>2. /\ 1 .. sends \subseteq 1 .. sends' /\ sends + 1 \in 1 .. sends'
        /\ sends' \in Nat /\ sends' <= MaxSends
    BY <2>1, Capacities DEF EgressTypes
  <2>3. commands \in Seq(1 .. sends')
    BY <2>2, SeqWiden DEF EgressTypes
  <2>4. commands' \in Seq(1 .. sends')
    BY <2>1, <2>2, <2>3
  <2>5. /\ outbound' \in Seq(1 .. sends') /\ flushing' \in Seq(1 .. sends')
        /\ handed' \in Seq(1 .. sends')
    BY <2>1, <2>2, SeqWiden DEF EgressTypes
  <2>6. QED BY <2>1, <2>2, <2>4, <2>5 DEF EgressTypes
<1>4. ASSUME commands # <<>>, commands' = Tail(commands),
             NEW to \in {"drain", "top"}, HandleCommand(Head(commands), to),
             UNCHANGED <<sends, flushing, runtimeQ, handed>>
      PROVE  EgressTypes'
  <2>1. commands' \in Seq(1 .. sends) /\ Head(commands) \in 1 .. sends
    BY <1>4, HandleCommandEffect
  <2>2. CASE /\ replies' = [replies EXCEPT ![Head(commands)] = "refused"]
             /\ UNCHANGED outbound
    BY <1>4, <2>1, <2>2 DEF EgressTypes
  <2>3. CASE /\ outbound' = Append(outbound, Head(commands))
             /\ Len(outbound') <= DispatchCapacity
             /\ UNCHANGED replies
    BY <1>4, <2>1, <2>3 DEF EgressTypes
  <2>4. QED BY <1>4, <2>2, <2>3, HandleCommandEffect
<1>5. CASE DrainReadyCommands
  <2>1. UNCHANGED <<sends, flushing, runtimeQ, handed>>
    BY <1>5 DEF DrainReadyCommands
  <2>2. \/ UNCHANGED <<commands, outbound, replies>>
        \/ commands # <<>> /\ commands' = Tail(commands) /\ HandleCommand(Head(commands), "drain")
    BY <1>5 DEF DrainReadyCommands
  <2>3. CASE UNCHANGED <<commands, outbound, replies>>
    BY <2>1, <2>3 DEF EgressTypes
  <2>4. QED BY <1>4, <2>1, <2>2, <2>3
<1>6. CASE Park
  <2>1. UNCHANGED <<sends, flushing, runtimeQ, handed>>
    BY <1>6 DEF Park
  <2>2. \/ UNCHANGED <<commands, outbound, replies>>
        \/ commands # <<>> /\ commands' = Tail(commands) /\ HandleCommand(Head(commands), "top")
    BY <1>6 DEF Park
  <2>3. CASE UNCHANGED <<commands, outbound, replies>>
    BY <2>1, <2>3 DEF EgressTypes
  <2>4. QED BY <1>4, <2>1, <2>2, <2>3
<1>7. CASE IngestAndAdvanceRouter
  <2>1. UNCHANGED <<sends, commands, outbound, flushing, runtimeQ, handed>>
    BY <1>7 DEF IngestAndAdvanceRouter, arrivals, egress
  <2>2. UNCHANGED replies \/ RoundFails
    BY <1>7 DEF IngestAndAdvanceRouter, outcome
  <2>3. QED BY <2>1, <2>2, RoundFailsEffect DEF EgressTypes
<1>8. CASE FlushOutbound
  <2>1. /\ flushing' = outbound /\ outbound' = <<>>
        /\ UNCHANGED <<sends, commands, runtimeQ, handed, replies>>
    BY <1>8 DEF FlushOutbound, arrivals, outcome
  <2>2. QED BY <2>1, Capacities DEF EgressTypes
<1>9. CASE Dispatch
  <2>1. UNCHANGED <<sends, commands, outbound>>
    BY <1>9 DEF Dispatch, arrivals
  <2>2. CASE /\ Len(runtimeQ) < RuntimeCapacity
             /\ runtimeQ' = Append(runtimeQ, flushing)
             /\ handed' = handed \o flushing
             /\ UNCHANGED <<flushing, replies>>
    <3>1. flushing \in Seq(Nat)
      <4>1. 1 .. sends \subseteq Nat
        BY DEF EgressTypes
      <4>2. QED BY <4>1, SeqWiden DEF EgressTypes
    <3>2. runtimeQ' \in Seq(Seq(Nat)) /\ Len(runtimeQ') <= RuntimeCapacity
      BY <2>2, <3>1, Capacities DEF EgressTypes
    <3>3. handed' \in Seq(1 .. sends)
      BY <2>2 DEF EgressTypes
    <3>4. QED BY <2>1, <2>2, <3>2, <3>3 DEF EgressTypes
  <2>3. CASE RoundFails /\ flushing' = <<>> /\ UNCHANGED <<runtimeQ, handed>>
    BY <2>1, <2>3, RoundFailsEffect DEF EgressTypes
  <2>4. QED BY <1>9, <2>2, <2>3 DEF Dispatch, outcome
<1>10. CASE FinishRound
  <2>1. /\ flushing' = <<>>
        /\ replies' \in [1 .. MaxSends -> {"none", "ok", "refused", "failed"}]
        /\ UNCHANGED <<sends, commands, outbound, runtimeQ, handed>>
    BY <1>10, FinishEffect
  <2>2. QED BY <2>1 DEF EgressTypes
<1>11. QED
  BY <1>1, <1>2, <1>3, <1>5, <1>6, <1>7, <1>8, <1>9, <1>10, <1>12, Frames DEF Next, ClientStep

(* The loop's own variables stay in range.                                 *)
LEMMA LoopTypeStep ==
    ASSUME IngressTypes, EgressTypes, LoopTypes, [Next]_clientVars
    PROVE  LoopTypes'
<1>0. sends' \in Nat /\ sends <= sends' /\ notifier' \in Nat /\ notifier <= notifier'
  <2>1. sends' = sends \/ sends' = sends + 1
    BY DEF Next, ClientStep, EmitIngress, RuntimeTakes, RuntimeStops, Send,
           RequestRuntimeShutdown, Top, DrainReadyCommands, TakeSnapshot, StageTransportIngress, IngestAndAdvanceRouter,
           FlushOutbound, Dispatch, FinishRound, WaitForWork, WaitAfterBridgeError, Park,
           clientVars, arrivals
  <2>2. notifier' = notifier \/ notifier' = notifier + 1
    BY DEF Next, ClientStep, EmitIngress, RuntimeTakes, RuntimeStops, Send,
           RequestRuntimeShutdown, Top, DrainReadyCommands, TakeSnapshot, StageTransportIngress, IngestAndAdvanceRouter,
           FlushOutbound, Dispatch, FinishRound, WaitForWork, WaitAfterBridgeError, Park,
           clientVars, arrivals
  <2>3. sends \in Nat /\ notifier \in Nat
    BY DEF IngressTypes, EgressTypes
  <2>4. QED BY <2>1, <2>2, <2>3
<1>1. CASE UNCHANGED loopVars
  BY <1>0, <1>1, SMTT(20) DEF loopVars, LoopTypes, EgressTypes, IngressTypes
<1>2. CASE Top
  BY <1>0, <1>2, Capacities DEF Top, LoopTypes, EgressTypes, IngressTypes, bridge, arrivals
<1>3. ASSUME commands # <<>>, commands' = Tail(commands),
             NEW to \in {"drain", "top"}, HandleCommand(Head(commands), to),
             UNCHANGED <<sends, notifier, snapshot, hint, work>>,
             drained' \in Nat, drained' <= DrainMax
      PROVE  LoopTypes'
  <2>1. Head(commands) \in 1 .. sends
    BY <1>3, HandleCommandEffect
  <2>2. CASE pc' = to /\ UNCHANGED back
    BY <1>3, <2>2 DEF LoopTypes
  <2>3. CASE pc' = "snapshot" /\ back' = [to |-> to, send |-> Head(commands)]
    BY <1>3, <2>1, <2>3, Capacities, SMTT(20) DEF LoopTypes, EgressTypes
  <2>4. QED BY <1>3, <2>2, <2>3, HandleCommandEffect
<1>4. CASE DrainReadyCommands
  <2>1. UNCHANGED <<sends, notifier, snapshot, hint, work>>
    BY <1>4 DEF DrainReadyCommands, bridge
  <2>2. CASE Round("wait", 0) /\ UNCHANGED drained
    BY <2>1, <2>2, Capacities DEF Round, LoopTypes, EgressTypes
  <2>3. CASE pc' = "stopped" /\ UNCHANGED <<back, drained>>
    BY <2>1, <2>3 DEF LoopTypes
  <2>4. CASE /\ drained < DrainMax /\ commands # <<>>
             /\ drained' = drained + 1
             /\ commands' = Tail(commands)
             /\ HandleCommand(Head(commands), "drain")
    <3>1. drained' \in Nat /\ drained' <= DrainMax
      BY <2>4, Capacities DEF LoopTypes
    <3>2. QED BY <1>3, <2>1, <2>4, <3>1
  <2>5. QED BY <1>4, <2>2, <2>3, <2>4 DEF DrainReadyCommands
<1>5. CASE TakeSnapshot \/ WaitAfterBridgeError
  <2>1. /\ snapshot' = notifier /\ pc' \in {"stage", "parkedError"}
        /\ UNCHANGED <<sends, notifier, back, drained, hint, work>>
    BY <1>5 DEF TakeSnapshot, WaitAfterBridgeError, arrivals, loop
  <2>2. QED BY <2>1 DEF LoopTypes, IngressTypes
<1>6. CASE StageTransportIngress \/ FlushOutbound \/ WaitForWork
  <2>1. /\ pc' \in {"ingest", "finish", "dispatch", "top", "parked"}
        /\ UNCHANGED <<sends, notifier, back, drained, snapshot, hint, work>>
    BY <1>6 DEF StageTransportIngress, FlushOutbound, WaitForWork, arrivals, loop, bridge
  <2>2. QED BY <2>1 DEF LoopTypes
<1>7. CASE IngestAndAdvanceRouter
  <2>1. UNCHANGED <<sends, notifier, back, drained, snapshot>>
    BY <1>7 DEF IngestAndAdvanceRouter, arrivals, loop
  <2>2. pc' = "flush" \/ RoundFails
    BY <1>7 DEF IngestAndAdvanceRouter
  <2>3. \/ hint' \in Hint /\ work > 0 /\ work' = work - 1
        \/ hint' \in Hint /\ work' = work
    BY <1>7 DEF IngestAndAdvanceRouter, Hint, LoopTypes
  <2>4. hint' \in Hint /\ work' \in Nat /\ work' <= MaxWork
    BY <2>3, Capacities DEF LoopTypes
  <2>5. pc' \in {"flush", "waitError", "wait", "drain", "top"}
    BY <2>2, RoundFailsEffect
  <2>6. QED BY <2>1, <2>4, <2>5 DEF LoopTypes
<1>8. CASE Dispatch
  <2>1. UNCHANGED <<sends, notifier, back, drained, snapshot, hint, work>>
    BY <1>8 DEF Dispatch, arrivals, loop
  <2>2. pc' = "finish" \/ RoundFails
    BY <1>8 DEF Dispatch
  <2>3. pc' \in {"finish", "waitError", "wait", "drain", "top"}
    BY <2>2, RoundFailsEffect
  <2>4. QED BY <2>1, <2>3 DEF LoopTypes
<1>9. CASE FinishRound
  <2>1. /\ pc' \in {"snapshot", "wait", "drain", "top"}
        /\ work' \in Nat /\ work' <= MaxWork
        /\ UNCHANGED <<sends, back, drained, snapshot, hint, notifier>>
    BY <1>9, FinishEffect
  <2>2. QED BY <2>1 DEF LoopTypes
<1>10. CASE Park
  <2>1. UNCHANGED <<sends, notifier, snapshot, hint, work, drained>>
    BY <1>10 DEF Park, bridge
  <2>2. CASE pc' \in {"stopped", "top"} /\ UNCHANGED back
    BY <2>1, <2>2 DEF LoopTypes
  <2>3. CASE /\ commands # <<>> /\ commands' = Tail(commands)
             /\ HandleCommand(Head(commands), "top")
    <3>1. drained' \in Nat /\ drained' <= DrainMax
      BY <2>1 DEF LoopTypes
    <3>2. QED BY <1>3, <2>1, <2>3, <3>1
  <2>4. QED BY <1>10, <2>2, <2>3 DEF Park
<1>11. QED
  BY <1>1, <1>2, <1>4, <1>5, <1>6, <1>7, <1>8, <1>9, <1>10, Frames DEF Next, ClientStep

(* The runtime task runs or has ended, after every step.                   *)
LEMMA RuntimeUpStep ==
    ASSUME runtimeUp \in BOOLEAN, [Next]_clientVars
    PROVE  runtimeUp' \in BOOLEAN
<1>1. RuntimeStops => runtimeUp' = FALSE
  BY DEF RuntimeStops
<1>2. [Next]_clientVars /\ ~RuntimeStops => runtimeUp' = runtimeUp
  BY DEF Next, ClientStep, EmitIngress, RuntimeTakes, Send, RequestRuntimeShutdown, Top,
         DrainReadyCommands, TakeSnapshot, StageTransportIngress, IngestAndAdvanceRouter,
         FlushOutbound, Dispatch, FinishRound, WaitForWork, WaitAfterBridgeError, Park,
         clientVars, arrivals
<1>3. QED BY <1>1, <1>2

-----------------------------------------------------------------------------
(* What a round holds *)

(* Outside its steps a round holds nothing, after every step.              *)
LEMMA RoundHoldsStep ==
    ASSUME RoundHolds, [Next]_clientVars
    PROVE  RoundHolds'
<1>1. CASE UNCHANGED <<pc, pending, ingested, flushing, outbound>>
  BY <1>1 DEF RoundHolds
<1>2. \/ EmitIngress \/ RuntimeTakes \/ RuntimeStops \/ Send \/ RequestRuntimeShutdown
      \/ UNCHANGED clientVars
      => UNCHANGED <<pc, pending, ingested, flushing, outbound>>
  BY DEF EmitIngress, RuntimeTakes, RuntimeStops, Send, RequestRuntimeShutdown, clientVars,
         bridge, egress
<1>3. ASSUME \/ Top \/ DrainReadyCommands \/ TakeSnapshot \/ WaitForWork
             \/ WaitAfterBridgeError \/ Park
      PROVE  RoundHolds'
  <2>1. pc \notin {"ingest", "flush", "dispatch", "finish"} /\ UNCHANGED <<pending, ingested, flushing>>
    BY <1>3 DEF Top, DrainReadyCommands, TakeSnapshot, WaitForWork, WaitAfterBridgeError, Park,
                bridge, egress
  <2>2. QED BY <2>1 DEF RoundHolds
<1>4. CASE StageTransportIngress
  BY <1>4 DEF StageTransportIngress, RoundHolds, egress
<1>5. CASE IngestAndAdvanceRouter
  BY <1>5 DEF IngestAndAdvanceRouter, RoundHolds, egress
<1>6. CASE FlushOutbound
  BY <1>6 DEF FlushOutbound, RoundHolds, bridge
<1>7. CASE Dispatch
  BY <1>7 DEF Dispatch, RoundHolds
<1>8. CASE FinishRound
  <2>1. pc = "finish" /\ ingested' = <<>> /\ flushing' = <<>> /\ pending' = pending
    BY <1>8 DEF FinishRound
  <2>2. QED BY <2>1 DEF RoundHolds
<1>9. QED BY <1>1, <1>2, <1>3, <1>4, <1>5, <1>6, <1>7, <1>8 DEF Next, ClientStep

-----------------------------------------------------------------------------
(* Ingress *)

(* An empty queue is in order, and before and after every other.           *)
LEMMA EmptyOrder ==
    /\ Rising(<<>>)
    /\ \A q : Below(<<>>, q) /\ Below(q, <<>>)
    /\ \A S : SetBelow(S, <<>>)
<1>1. Len(<<>>) = 0 /\ 1 .. 0 = {}
  OBVIOUS
<1>2. QED BY <1>1 DEF Rising, Below, SetBelow

(* The ingress queues hold numbers, and finitely many are lost.            *)
LEMMA IngressNumbers ==
    ASSUME IngressTypes
    PROVE  /\ mailbox \in Seq(Nat) /\ pending \in Seq(Nat) /\ ingested \in Seq(Nat)
           /\ applied \in Seq(Nat) /\ lost \subseteq Nat
           /\ Len(mailbox) \in Nat /\ Len(pending) \in Nat /\ Len(ingested) \in Nat
           /\ Len(applied) \in Nat
           /\ IsFiniteSet(lost) /\ Cardinality(lost) \in Nat
<1>1. 1 .. emitted \subseteq Nat /\ emitted \in Nat
  BY DEF IngressTypes
<1>2. /\ mailbox \in Seq(Nat) /\ pending \in Seq(Nat) /\ ingested \in Seq(Nat)
      /\ applied \in Seq(Nat) /\ lost \subseteq Nat
  BY <1>1, SeqWiden DEF IngressTypes
<1>3. IsFiniteSet(1 .. emitted)
  BY <1>1, FS_Interval
<1>4. IsFiniteSet(lost) /\ Cardinality(lost) \in Nat
  BY <1>3, FS_Subset, FS_CardinalityType DEF IngressTypes
<1>5. QED BY <1>2, <1>4

(* What a failed round loses is as much as the queue it loses holds.       *)
LEMMA LostGrows ==
    ASSUME IngressTypes, NEW q \in Seq(Nat), Rising(q), SetBelow(lost, q)
    PROVE  Cardinality(lost \cup ToSet(q)) = Cardinality(lost) + Len(q)
<1>1. /\ IsFiniteSet(lost) /\ Cardinality(lost) \in Nat /\ lost \subseteq Nat
      /\ IsFiniteSet(ToSet(q)) /\ Cardinality(ToSet(q)) = Len(q)
      /\ Len(q) \in Nat
  BY IngressNumbers, RisingCardinality
<1>2. lost \cap ToSet(q) = {}
  <2>1. SUFFICES ASSUME NEW x \in lost, x \in ToSet(q)
                 PROVE  FALSE
    OBVIOUS
  <2>2. PICK j \in 1 .. Len(q) : q[j] = x
    BY <2>1, ToSetMembers
  <2>3. x < x /\ x \in Nat
    BY <1>1, <2>1, <2>2 DEF SetBelow
  <2>4. QED BY <2>3
<1>3. Cardinality(lost \cup ToSet(q)) =
          Cardinality(lost) + Cardinality(ToSet(q)) - Cardinality(lost \cap ToSet(q))
  BY <1>1, FS_Union
<1>4. Cardinality(lost \cap ToSet(q)) = 0
  BY <1>2, FS_EmptySet
<1>5. QED BY <1>1, <1>3, <1>4

(* What a failed round loses is before all that was behind it.             *)
LEMMA LostBelow ==
    ASSUME NEW q \in Seq(Nat), NEW r \in Seq(Nat), NEW S, Below(q, r), SetBelow(S, r)
    PROVE  SetBelow(S \cup ToSet(q), r)
<1>1. \A x \in ToSet(q) : \E i \in 1 .. Len(q) : q[i] = x
  BY ToSetMembers
<1>2. QED BY <1>1 DEF Below, SetBelow

(* Every step of the mailbox, of the round and of the reports keeps events *)
(* in order of arrival and counts every one of them.                       *)
LEMMA IngressStep ==
    ASSUME IngressTypes, RoundHolds, IngressOrdered, IngressCounted, [Next]_clientVars
    PROVE  IngressOrdered' /\ IngressCounted'
<1>0. /\ mailbox \in Seq(Nat) /\ pending \in Seq(Nat) /\ ingested \in Seq(Nat)
      /\ applied \in Seq(Nat) /\ lost \subseteq Nat
      /\ Len(mailbox) \in Nat /\ Len(pending) \in Nat /\ Len(ingested) \in Nat
      /\ Len(applied) \in Nat
      /\ Cardinality(lost) \in Nat
      /\ emitted \in Nat /\ dropped \in Nat /\ reported \in Nat
      /\ Len(<<>>) = 0
  BY IngressNumbers DEF IngressTypes
<1>1. CASE UNCHANGED ingressVars
  BY <1>1 DEF ingressVars, IngressOrdered, IngressCounted
<1>2. CASE EmitIngress
  <2>1. /\ emitted' = emitted + 1
        /\ mailbox' = Append(mailbox, emitted + 1)
        /\ UNCHANGED <<pending, ingested, dropped, applied, reported, lost>>
    BY <1>2 DEF EmitIngress, bridge, outcome
  <2>2. /\ AllBelow(mailbox, emitted + 1) /\ AllBelow(pending, emitted + 1)
        /\ AllBelow(ingested, emitted + 1) /\ AllBelow(applied, emitted + 1)
    BY DEF AllBelow, IngressTypes
  <2>3. Rising(mailbox')
    BY <1>0, <2>1, <2>2, AppendRising DEF IngressOrdered
  <2>4. Below(applied, mailbox') /\ Below(ingested, mailbox') /\ Below(pending, mailbox')
    BY <1>0, <2>1, <2>2, AppendBelow DEF IngressOrdered
  <2>5. SetBelow(lost, mailbox')
    <3>1. /\ Len(mailbox') = Len(mailbox) + 1
          /\ \A j \in 1 .. Len(mailbox) : mailbox'[j] = mailbox[j]
          /\ mailbox'[Len(mailbox) + 1] = emitted + 1
      BY <1>0, <2>1
    <3>2. \A x \in lost : x < emitted + 1
      BY DEF IngressTypes
    <3>3. \A j \in 1 .. Len(mailbox') : j \in 1 .. Len(mailbox) \/ j = Len(mailbox) + 1
      BY <1>0, <3>1
    <3>4. QED BY <3>1, <3>2, <3>3 DEF SetBelow, IngressOrdered
  <2>6. Len(mailbox') = Len(mailbox) + 1
    BY <1>0, <2>1
  <2>7. IngressCounted'
    BY <1>0, <2>1, <2>6, SMTT(20) DEF IngressCounted
  <2>8. QED BY <2>1, <2>3, <2>4, <2>5, <2>7 DEF IngressOrdered
<1>3. CASE StageTransportIngress
  <2>1. /\ pc = "stage"
        /\ mailbox' = <<>>
        /\ pending' = pending \o Kept
        /\ dropped' = dropped + (Len(mailbox) - Len(Kept))
        /\ UNCHANGED <<emitted, ingested, applied, reported, lost>>
    BY <1>3 DEF StageTransportIngress, CountDropped, Kept, outcome
  <2>2. pending = <<>> /\ ingested = <<>>
    BY <2>1 DEF RoundHolds
  <2>3. /\ Kept \in Seq(Nat) /\ Len(Kept) \in Nat /\ Len(Kept) <= Len(mailbox)
        /\ \A i \in 1 .. Len(Kept) : Kept[i] = mailbox[i] /\ i \in 1 .. Len(mailbox)
    <3>1. 1 .. emitted \subseteq Nat
      BY <1>0
    <3>2. Kept \in Seq(Nat)
      BY <3>1, KeptPrefix, SeqWiden
    <3>3. Len(Kept) \in Nat /\ Len(Kept) <= Len(mailbox)
      BY KeptPrefix
    <3>4. \A i \in 1 .. Len(Kept) : i \in 1 .. Len(mailbox)
      BY <1>0, <3>3
    <3>5. \A i \in 1 .. Len(Kept) : Kept[i] = mailbox[i]
      BY KeptPrefix
    <3>6. QED BY <3>2, <3>3, <3>4, <3>5
  <2>4. pending' = Kept
    BY <2>1, <2>2, <2>3
  <2>5. Rising(Kept) /\ Below(applied, Kept) /\ SetBelow(lost, Kept)
    BY <2>3 DEF IngressOrdered, Rising, Below, SetBelow
  <2>6. IngressCounted'
    BY <1>0, <2>1, <2>2, <2>3, <2>4 DEF IngressCounted
  <2>7. QED BY <2>1, <2>2, <2>4, <2>5, <2>6, EmptyOrder DEF IngressOrdered
<1>4. CASE IngestAndAdvanceRouter
  <2>1. /\ pc = "ingest" /\ pending' = <<>>
        /\ UNCHANGED <<emitted, mailbox, dropped, applied, reported>>
        /\ \/ ingested' = pending /\ lost' = lost
           \/ ingested' = ingested /\ lost' = lost \cup ToSet(pending)
    BY <1>4 DEF IngestAndAdvanceRouter, RoundFails, arrivals, outcome
  <2>2. ingested = <<>>
    BY <2>1 DEF RoundHolds
  <2>3. CASE ingested' = pending /\ lost' = lost
    <3>1. IngressCounted'
      BY <1>0, <2>1, <2>2, <2>3 DEF IngressCounted
    <3>2. QED BY <2>1, <2>3, <3>1, EmptyOrder DEF IngressOrdered
  <2>4. CASE ingested' = ingested /\ lost' = lost \cup ToSet(pending)
    <3>1. Cardinality(lost') = Cardinality(lost) + Len(pending)
      BY <1>0, <2>4, LostGrows DEF IngressOrdered
    <3>2. SetBelow(lost', mailbox)
      BY <1>0, <2>4, LostBelow DEF IngressOrdered
    <3>3. IngressCounted'
      BY <1>0, <2>1, <2>2, <2>4, <3>1 DEF IngressCounted
    <3>4. QED BY <2>1, <2>2, <2>4, <3>2, <3>3, EmptyOrder DEF IngressOrdered
  <2>5. QED BY <2>1, <2>3, <2>4
<1>5. CASE Dispatch
  <2>1. /\ pc = "dispatch"
        /\ UNCHANGED <<emitted, mailbox, pending, dropped, applied, reported>>
        /\ \/ ingested' = ingested /\ lost' = lost
           \/ ingested' = <<>> /\ lost' = lost \cup ToSet(ingested)
    BY <1>5 DEF Dispatch, RoundFails, arrivals, outcome
  <2>2. pending = <<>>
    BY <2>1 DEF RoundHolds
  <2>3. CASE ingested' = ingested /\ lost' = lost
    BY <2>1, <2>3 DEF IngressOrdered, IngressCounted
  <2>4. CASE ingested' = <<>> /\ lost' = lost \cup ToSet(ingested)
    <3>1. Cardinality(lost') = Cardinality(lost) + Len(ingested)
      BY <1>0, <2>4, LostGrows DEF IngressOrdered
    <3>2. SetBelow(lost', mailbox)
      BY <1>0, <2>4, LostBelow DEF IngressOrdered
    <3>3. IngressCounted'
      BY <1>0, <2>1, <2>2, <2>4, <3>1 DEF IngressCounted
    <3>4. QED BY <2>1, <2>2, <2>4, <3>2, <3>3, EmptyOrder DEF IngressOrdered
  <2>5. QED BY <2>1, <2>3, <2>4
<1>6. CASE FinishRound
  <2>1. /\ pc = "finish"
        /\ reported' = reported + dropped /\ dropped' = 0
        /\ applied' = applied \o ingested /\ ingested' = <<>>
        /\ UNCHANGED <<emitted, mailbox, pending, lost>>
    BY <1>6 DEF FinishRound, arrivals
  <2>2. pending = <<>>
    BY <2>1 DEF RoundHolds
  <2>3. Rising(applied')
    BY <1>0, <2>1, ConcatRising DEF IngressOrdered
  <2>4. Below(applied', mailbox)
    BY <1>0, <2>1, ConcatBelow DEF IngressOrdered
  <2>5. Len(applied') = Len(applied) + Len(ingested)
    BY <1>0, <2>1
  <2>6. IngressCounted'
    BY <1>0, <2>1, <2>5 DEF IngressCounted
  <2>7. QED BY <2>1, <2>2, <2>3, <2>4, <2>6, EmptyOrder DEF IngressOrdered
<1>7. QED BY <1>1, <1>2, <1>3, <1>4, <1>5, <1>6, Frames DEF Next, ClientStep

-----------------------------------------------------------------------------
(* Egress *)

(* The egress queues hold numbers.                                         *)
LEMMA EgressNumbers ==
    ASSUME EgressTypes
    PROVE  /\ handed \in Seq(Nat) /\ flushing \in Seq(Nat)
           /\ outbound \in Seq(Nat) /\ commands \in Seq(Nat)
<1>1. 1 .. sends \subseteq Nat
  BY DEF EgressTypes
<1>2. QED BY <1>1, SeqWiden DEF EgressTypes

(* Every send in a queue has a caller to answer.                           *)
LEMMA QueuedSends ==
    ASSUME EgressTypes
    PROVE  /\ \A i \in 1 .. Len(handed) : handed[i] \in 1 .. MaxSends
           /\ \A i \in 1 .. Len(outbound) : outbound[i] \in 1 .. MaxSends
           /\ \A i \in 1 .. Len(flushing) : flushing[i] \in 1 .. MaxSends
           /\ \A i \in 1 .. Len(commands) : commands[i] \in 1 .. MaxSends
<1>1. 1 .. sends \subseteq 1 .. MaxSends
  BY Capacities DEF EgressTypes
<1>2. /\ handed \in Seq(1 .. MaxSends) /\ outbound \in Seq(1 .. MaxSends)
      /\ flushing \in Seq(1 .. MaxSends) /\ commands \in Seq(1 .. MaxSends)
  BY <1>1, SeqWiden DEF EgressTypes
<1>3. ASSUME NEW S, NEW q \in Seq(S)
      PROVE  \A i \in 1 .. Len(q) : q[i] \in S
  OBVIOUS
<1>4. QED BY <1>2, <1>3

(* The send a round answers is no longer in the command queue.             *)
LEMMA AnsweredOnce ==
    ASSUME EgressTypes, LoopTypes, EgressOrdered
    PROVE  \A i \in 1 .. Len(commands) : commands[i] # back.send
<1>1. back.send \in Nat /\ commands \in Seq(Nat)
  BY Capacities, EgressNumbers DEF LoopTypes
<1>2. ASSUME NEW i \in 1 .. Len(commands)
      PROVE  commands[i] # back.send
  <2>1. back.send < commands[i] /\ commands[i] \in Nat
    BY <1>1 DEF EgressOrdered
  <2>2. QED BY <1>1, <2>1
<1>3. QED BY <1>2

(* A queue of numbers up to n is below the next one.                       *)
LEMMA NumberedBelow ==
    ASSUME NEW n \in Nat, NEW q \in Seq(1 .. n)
    PROVE  AllBelow(q, n + 1)
<1>1. \A i \in 1 .. Len(q) : q[i] \in 1 .. n
  OBVIOUS
<1>2. QED BY <1>1 DEF AllBelow

(* The state of the sends, for every step that leaves them where they are  *)
(* and starts no dispatch.                                                 *)
LEMMA EgressStays ==
    ASSUME EgressInv, UNCHANGED <<sends, commands, outbound, flushing, handed, replies, back>>,
           pc' = pc \/ (pc' # "dispatch" /\ (pc' \in {"snapshot", "stage", "ingest", "flush"} =>
                                             pc \in {"snapshot", "stage", "ingest", "flush"})
                        /\ pc' # "finish")
    PROVE  EgressInv'
<1>1. EgressOrdered'
  BY DEF EgressInv, EgressOrdered
<1>2. RepliesRight'
  BY DEF EgressInv, RepliesRight, ReceiptMeansHandedOver
<1>3. RoundCarriesSend'
  BY DEF EgressInv, RoundCarriesSend
<1>4. QED BY <1>1, <1>2, <1>3 DEF EgressInv

(* A new send is behind every other.                                       *)
LEMMA SendStep ==
    ASSUME EgressTypes, LoopTypes, EgressInv, Send
    PROVE  EgressInv'
<1>0. /\ handed \in Seq(Nat) /\ flushing \in Seq(Nat)
      /\ outbound \in Seq(Nat) /\ commands \in Seq(Nat)
      /\ sends \in Nat /\ sends <= MaxSends /\ sends + 1 \in Nat
      /\ Len(commands) \in Nat
  BY EgressNumbers DEF EgressTypes
<1>1. /\ sends < MaxSends /\ sends' = sends + 1
      /\ commands' = Append(commands, sends + 1)
      /\ UNCHANGED <<outbound, flushing, handed, replies, back, pc>>
  BY DEF Send, egress, outcome, loop
<1>2. /\ AllBelow(handed, sends + 1) /\ AllBelow(flushing, sends + 1)
      /\ AllBelow(outbound, sends + 1) /\ AllBelow(commands, sends + 1)
  BY <1>0, NumberedBelow DEF EgressTypes
<1>3. /\ \A j \in 1 .. Len(commands') :
            \/ j \in 1 .. Len(commands) /\ commands'[j] = commands[j]
            \/ commands'[j] = sends + 1
  BY <1>0, <1>1
<1>4. EgressOrdered'
  <2>1. Rising(commands')
    BY <1>0, <1>1, <1>2, AppendRising DEF EgressInv, EgressOrdered
  <2>2. Below(handed, commands') /\ Below(outbound, commands') /\ Below(flushing, commands')
    BY <1>0, <1>1, <1>2, AppendBelow DEF EgressInv, EgressOrdered
  <2>3. back.send < sends + 1
    BY <1>0 DEF LoopTypes
  <2>4. \A j \in 1 .. Len(commands') : back.send < commands'[j]
    BY <1>3, <2>3 DEF EgressInv, EgressOrdered
  <2>5. QED BY <1>1, <2>1, <2>2, <2>4 DEF EgressInv, EgressOrdered
<1>5. RepliesRight'
  <2>1. \A n \in 1 .. MaxSends : n > sends' => replies[n] = "none"
    BY <1>0, <1>1, Capacities DEF EgressInv, RepliesRight
  <2>2. replies[sends + 1] = "none"
    BY <1>0, <1>1, Capacities DEF EgressInv, RepliesRight
  <2>3. \A j \in 1 .. Len(commands') : replies[commands'[j]] = "none"
    BY <1>3, <2>2 DEF EgressInv, RepliesRight
  <2>4. QED BY <1>1, <2>1, <2>3 DEF EgressInv, RepliesRight, ReceiptMeansHandedOver
<1>6. RoundCarriesSend'
  BY <1>1 DEF EgressInv, RoundCarriesSend
<1>7. QED BY <1>4, <1>5, <1>6 DEF EgressInv

(* A command that is handled is refused and gone, or queued behind all     *)
(* that went before and carried by the round that starts.                  *)
LEMMA HandleStep ==
    ASSUME EgressTypes, LoopTypes, EgressInv, commands # <<>>, commands' = Tail(commands),
           NEW to \in {"drain", "top"}, HandleCommand(Head(commands), to),
           UNCHANGED <<sends, flushing, handed>>
    PROVE  EgressInv'
<1> DEFINE h == Head(commands)
<1>0. /\ handed \in Seq(Nat) /\ flushing \in Seq(Nat)
      /\ outbound \in Seq(Nat) /\ commands \in Seq(Nat)
      /\ sends \in Nat /\ sends <= MaxSends
      /\ h \in 1 .. sends /\ h \in Nat /\ h \in 1 .. MaxSends
  <2>1. /\ handed \in Seq(Nat) /\ flushing \in Seq(Nat)
        /\ outbound \in Seq(Nat) /\ commands \in Seq(Nat)
    BY EgressNumbers
  <2>2. sends \in Nat /\ sends <= MaxSends /\ MaxSends \in Nat
    BY Capacities DEF EgressTypes
  <2>3. h \in 1 .. sends
    BY HandleCommandEffect
  <2>4. QED BY <2>1, <2>2, <2>3
<1>1. /\ commands' \in Seq(Nat)
      /\ Rising(commands')
      /\ \A j \in 1 .. Len(commands') : h < commands'[j]
      /\ \A j \in 1 .. Len(commands') : back.send < commands'[j]
  BY <1>0, TailRising DEF EgressInv, EgressOrdered
<1>2. /\ Below(handed, commands') /\ Below(outbound, commands') /\ Below(flushing, commands')
      /\ AllBelow(handed, h) /\ AllBelow(outbound, h) /\ AllBelow(flushing, h)
  BY <1>0, TailBelow DEF EgressInv, EgressOrdered
<1>3. /\ \A j \in 1 .. Len(commands') : replies[commands'[j]] = "none"
      /\ replies[h] = "none"
  <2>1. /\ h = commands[1] /\ 1 \in 1 .. Len(commands)
        /\ \A j \in 1 .. Len(commands') : commands'[j] = commands[j + 1] /\ j + 1 \in 1 .. Len(commands)
    BY <1>0
  <2>2. QED BY <2>1 DEF EgressInv, RepliesRight
<1> HIDE DEF h
<1>4. CASE /\ replies' = [replies EXCEPT ![h] = "refused"]
           /\ pc' = to
           /\ UNCHANGED <<outbound, back>>
  <2>1. EgressOrdered'
    BY <1>1, <1>2, <1>4 DEF EgressInv, EgressOrdered
  <2>2. \A n \in 1 .. MaxSends : replies'[n] = IF n = h THEN "refused" ELSE replies[n]
    BY <1>4 DEF EgressTypes
  <2>3. /\ \A i \in 1 .. Len(handed) : handed[i] \in 1 .. MaxSends /\ handed[i] # h
        /\ \A i \in 1 .. Len(outbound) : outbound[i] \in 1 .. MaxSends /\ outbound[i] # h
        /\ \A i \in 1 .. Len(flushing) : flushing[i] \in 1 .. MaxSends /\ flushing[i] # h
    <3>1. /\ \A i \in 1 .. Len(handed) : handed[i] < h
          /\ \A i \in 1 .. Len(outbound) : outbound[i] < h
          /\ \A i \in 1 .. Len(flushing) : flushing[i] < h
      BY <1>2 DEF AllBelow
    <3>2. QED BY <1>0, <3>1, QueuedSends, SMTT(20)
  <2>4. \A i \in 1 .. Len(commands') : commands'[i] \in 1 .. MaxSends /\ commands'[i] # h
    <3>1. commands' \in Seq(1 .. sends)
      BY HandleCommandEffect
    <3>2. QED BY <1>0, <1>1, <3>1, Capacities, SMTT(20)
  <2>5. /\ \A n \in 1 .. MaxSends : n > sends' => replies'[n] = "none"
        /\ \A i \in 1 .. Len(commands') : replies'[commands'[i]] = "none"
    <3>1. \A n \in 1 .. MaxSends : n > sends => replies[n] = "none" /\ n # h
      BY <1>0 DEF EgressInv, RepliesRight
    <3>2. QED BY <1>3, <2>2, <2>4, <3>1
  <2>6. /\ \A i \in 1 .. Len(handed) : replies'[handed[i]] # "refused"
        /\ \A i \in 1 .. Len(outbound) : replies'[outbound[i]] # "refused"
        /\ \A i \in 1 .. Len(flushing) : replies'[flushing[i]] # "refused"
    BY <2>2, <2>3 DEF EgressInv, RepliesRight
  <2>7. ReceiptMeansHandedOver'
    BY <2>2 DEF EgressInv, RepliesRight, ReceiptMeansHandedOver
  <2>8. RepliesRight'
    BY <1>4, <2>5, <2>6, <2>7 DEF RepliesRight
  <2>9. RoundCarriesSend'
    BY <1>4 DEF RoundCarriesSend
  <2>10. QED BY <2>1, <2>8, <2>9 DEF EgressInv
<1>5. CASE /\ outbound' = Append(outbound, h)
           /\ pc' = "snapshot"
           /\ back' = [to |-> to, send |-> h]
           /\ UNCHANGED replies
  <2>1. EgressOrdered'
    <3>1. Rising(outbound')
      BY <1>0, <1>2, <1>5, AppendRising DEF EgressInv, EgressOrdered
    <3>2. Below(handed, outbound') /\ Below(outbound', commands')
      BY <1>0, <1>1, <1>2, <1>5, AppendBelow DEF EgressInv, EgressOrdered
    <3>3. \A j \in 1 .. Len(commands') : back'.send < commands'[j]
      BY <1>1, <1>5
    <3>4. QED BY <1>1, <1>2, <1>5, <3>1, <3>2, <3>3 DEF EgressInv, EgressOrdered
  <2>2. \A i \in 1 .. Len(outbound') : replies[outbound'[i]] # "refused"
    <3>1. \A i \in 1 .. Len(outbound') : (i \in 1 .. Len(outbound) /\ outbound'[i] = outbound[i])
                                          \/ outbound'[i] = h
      <4>1. outbound \in Seq(Nat) /\ h \in Nat /\ outbound' = Append(outbound, h)
        BY <1>0, <1>5
      <4>2. QED BY <4>1
    <3>2. QED BY <1>3, <3>1 DEF EgressInv, RepliesRight
  <2>3. RepliesRight'
    BY <1>3, <1>5, <2>2 DEF EgressInv, RepliesRight, ReceiptMeansHandedOver
  <2>4. h \in ToSet(outbound')
    BY <1>0, <1>5, ToSetGrows
  <2>5. RoundCarriesSend'
    BY <1>5, <2>4 DEF RoundCarriesSend
  <2>6. QED BY <2>1, <2>3, <2>5 DEF EgressInv
<1>6. QED BY <1>4, <1>5, HandleCommandEffect DEF h

(* A round that fails answers its own caller, whose send is neither queued *)
(* behind it nor refused.                                                  *)
LEMMA RoundFailsStep ==
    ASSUME EgressTypes, LoopTypes, EgressInv, RoundFails,
           UNCHANGED <<sends, commands, outbound, handed, back>>,
           flushing' = flushing \/ flushing' = <<>>
    PROVE  EgressInv'
<1>1. /\ pc' \in {"waitError", "wait", "drain", "top"}
      /\ \A n \in 1 .. MaxSends : replies'[n] = IF n = back.send THEN "failed" ELSE replies[n]
  BY RoundFailsEffect
<1>2. EgressOrdered'
  BY <1>1, EmptyOrder DEF EgressInv, EgressOrdered
<1>3. /\ \A i \in 1 .. Len(handed) : handed[i] \in 1 .. MaxSends
      /\ \A i \in 1 .. Len(outbound) : outbound[i] \in 1 .. MaxSends
      /\ \A i \in 1 .. Len(flushing) : flushing[i] \in 1 .. MaxSends
      /\ \A i \in 1 .. Len(commands) : commands[i] \in 1 .. MaxSends /\ commands[i] # back.send
  BY QueuedSends, AnsweredOnce DEF EgressInv
<1>4. /\ \A n \in 1 .. MaxSends : n > sends' => replies'[n] = "none"
      /\ \A i \in 1 .. Len(commands) : replies'[commands[i]] = "none"
  <2>1. back.send <= sends /\ back.send \in Nat /\ sends \in Nat
    BY Capacities DEF LoopTypes, EgressTypes
  <2>2. QED BY <1>1, <1>3, <2>1 DEF EgressInv, RepliesRight
<1>5. /\ \A i \in 1 .. Len(handed) : replies'[handed[i]] # "refused"
      /\ \A i \in 1 .. Len(outbound) : replies'[outbound[i]] # "refused"
      /\ \A i \in 1 .. Len(flushing) : replies'[flushing[i]] # "refused"
  BY <1>1, <1>3 DEF EgressInv, RepliesRight
<1>6. \A i \in 1 .. Len(flushing') : replies'[flushing'[i]] # "refused"
  <2>1. CASE flushing' = flushing
    BY <1>5, <2>1
  <2>2. CASE flushing' = <<>>
    BY <2>2
  <2>3. QED BY <2>1, <2>2
<1>7. ReceiptMeansHandedOver'
  BY <1>1 DEF EgressInv, RepliesRight, ReceiptMeansHandedOver
<1>8. RepliesRight'
  BY <1>4, <1>5, <1>6, <1>7 DEF RepliesRight
<1>9. RoundCarriesSend'
  BY <1>1 DEF RoundCarriesSend
<1>10. QED BY <1>2, <1>8, <1>9 DEF EgressInv

(* The flush takes every queued send into the round.                       *)
LEMMA FlushStep ==
    ASSUME EgressTypes, EgressInv, FlushOutbound
    PROVE  EgressInv'
<1>1. /\ pc = "flush" /\ flushing' = outbound /\ outbound' = <<>>
      /\ pc' = IF outbound = <<>> THEN "finish" ELSE "dispatch"
      /\ UNCHANGED <<sends, commands, handed, replies, back>>
  BY DEF FlushOutbound, arrivals, loop, outcome
<1>2. EgressOrdered'
  BY <1>1, EmptyOrder DEF EgressInv, EgressOrdered
<1>3. RepliesRight'
  <2>1. \A i \in 1 .. Len(outbound') : replies'[outbound'[i]] # "refused"
    BY <1>1
  <2>2. QED BY <1>1, <2>1 DEF EgressInv, RepliesRight, ReceiptMeansHandedOver
<1>4. RoundCarriesSend'
  <2>1. outbound = <<>> => ToSet(outbound) = {}
    BY DEF ToSet
  <2>2. QED BY <1>1, <2>1 DEF EgressInv, RoundCarriesSend
<1>5. QED BY <1>2, <1>3, <1>4 DEF EgressInv

(* The dispatch hands over the whole batch, behind all that was handed     *)
(* over before, or fails with it.                                          *)
LEMMA DispatchStep ==
    ASSUME EgressTypes, LoopTypes, RoundHolds, EgressInv, Dispatch
    PROVE  EgressInv'
<1>0. /\ handed \in Seq(Nat) /\ flushing \in Seq(Nat)
      /\ outbound \in Seq(Nat) /\ commands \in Seq(Nat)
  BY EgressNumbers
<1>1. pc = "dispatch" /\ UNCHANGED <<sends, commands, outbound, back>>
  BY DEF Dispatch, arrivals, loop
<1>2. CASE RoundFails /\ flushing' = <<>> /\ UNCHANGED handed
  BY <1>1, <1>2, RoundFailsStep
<1>3. CASE handed' = handed \o flushing /\ pc' = "finish" /\ UNCHANGED <<flushing, replies>>
  <2>1. EgressOrdered'
    <3>1. Rising(handed')
      BY <1>0, <1>1, <1>3, ConcatRising DEF EgressInv, EgressOrdered
    <3>2. Below(handed', commands)
      BY <1>0, <1>3, ConcatBelow DEF EgressInv, EgressOrdered
    <3>3. Below(flushing, outbound)
      BY EmptyOrder DEF RoundHolds
    <3>4. Below(handed', outbound)
      BY <1>0, <1>3, <3>3, ConcatBelow DEF EgressInv, EgressOrdered
    <3>5. QED BY <1>1, <1>3, <3>1, <3>2, <3>4 DEF EgressInv, EgressOrdered
  <2>2. ToSet(handed') = ToSet(handed) \cup ToSet(flushing)
    <3>1. 0 \in Nat
      OBVIOUS
    <3>2. QED BY <1>0, <1>3, <3>1, ToSetGrows
  <2>3. RepliesRight'
    <3>1. ASSUME NEW i \in 1 .. Len(handed')
          PROVE  replies[handed'[i]] # "refused"
      <4>1. \/ i \in 1 .. Len(handed) /\ handed'[i] = handed[i]
            \/ i - Len(handed) \in 1 .. Len(flushing) /\ handed'[i] = flushing[i - Len(handed)]
        BY <1>0, <1>3, <3>1, ConcatIndex
      <4>2. QED BY <4>1 DEF EgressInv, RepliesRight
    <3>2. ReceiptMeansHandedOver'
      BY <1>3, <2>2 DEF EgressInv, RepliesRight, ReceiptMeansHandedOver
    <3>3. QED BY <1>1, <1>3, <3>1, <3>2 DEF EgressInv, RepliesRight
  <2>4. RoundCarriesSend'
    BY <1>1, <1>3, <2>2 DEF EgressInv, RoundCarriesSend
  <2>5. QED BY <2>1, <2>3, <2>4 DEF EgressInv
<1>4. QED BY <1>2, <1>3 DEF Dispatch, outcome

(* The end of a round gives a receipt for a send that has gone.            *)
LEMMA FinishStep ==
    ASSUME EgressTypes, LoopTypes, EgressInv, FinishRound
    PROVE  EgressInv'
<1>1. /\ pc = "finish"
      /\ pc' \in {"snapshot", "wait", "drain", "top"}
      /\ \/ replies' = replies
         \/ back.send # 0 /\ replies' = [replies EXCEPT ![back.send] = "ok"]
      /\ flushing' = <<>>
      /\ UNCHANGED <<sends, commands, outbound, handed, back>>
  BY FinishEffect
<1>2. back.send # 0 => back.send \in ToSet(handed) /\ back.send \in 1 .. MaxSends
  BY <1>1 DEF EgressInv, RoundCarriesSend, LoopTypes
<1>3. EgressOrdered'
  BY <1>1, EmptyOrder DEF EgressInv, EgressOrdered
<1>4. \A n \in 1 .. MaxSends :
          \/ replies'[n] = replies[n]
          \/ n = back.send /\ back.send # 0 /\ replies'[n] = "ok"
  BY <1>1, <1>2 DEF EgressTypes
<1>5. /\ \A i \in 1 .. Len(handed) : handed[i] \in 1 .. MaxSends
      /\ \A i \in 1 .. Len(outbound) : outbound[i] \in 1 .. MaxSends
      /\ \A i \in 1 .. Len(commands) : commands[i] \in 1 .. MaxSends /\ commands[i] # back.send
  BY QueuedSends, AnsweredOnce DEF EgressInv
<1>6. /\ \A n \in 1 .. MaxSends : n > sends' => replies'[n] = "none"
      /\ \A i \in 1 .. Len(commands) : replies'[commands[i]] = "none"
  <2>1. back.send <= sends /\ back.send \in Nat /\ sends \in Nat
    BY Capacities DEF LoopTypes, EgressTypes
  <2>2. QED BY <1>1, <1>4, <1>5, <2>1 DEF EgressInv, RepliesRight
<1>7. /\ \A i \in 1 .. Len(handed) : replies'[handed[i]] # "refused"
      /\ \A i \in 1 .. Len(outbound) : replies'[outbound[i]] # "refused"
  BY <1>4, <1>5 DEF EgressInv, RepliesRight
<1>8. \A i \in 1 .. Len(flushing') : replies'[flushing'[i]] # "refused"
  BY <1>1
<1>9. ReceiptMeansHandedOver'
  BY <1>1, <1>2, <1>4 DEF EgressInv, RepliesRight, ReceiptMeansHandedOver
<1>10. RepliesRight'
  BY <1>1, <1>6, <1>7, <1>8, <1>9 DEF RepliesRight
<1>11. RoundCarriesSend'
  BY <1>1, <1>2 DEF RoundCarriesSend
<1>12. QED BY <1>3, <1>10, <1>11 DEF EgressInv

(* Every step keeps sends in order and answers right.                      *)
LEMMA EgressStep ==
    ASSUME EgressTypes, LoopTypes, RoundHolds, EgressInv, [Next]_clientVars
    PROVE  EgressInv'
<1>1. CASE \/ EmitIngress \/ RequestRuntimeShutdown \/ RuntimeTakes \/ RuntimeStops
           \/ UNCHANGED clientVars
  <2>1. UNCHANGED <<sends, commands, outbound, flushing, handed, replies, back, pc>>
    BY <1>1 DEF EmitIngress, RequestRuntimeShutdown, RuntimeTakes, RuntimeStops, clientVars,
                arrivals, loop, egress, outcome
  <2>2. QED BY <2>1, EgressStays
<1>2. CASE \/ Top \/ TakeSnapshot \/ StageTransportIngress \/ WaitForWork \/ WaitAfterBridgeError
  <2>1. UNCHANGED <<sends, commands, outbound, flushing, handed, replies, back>>
    BY <1>2 DEF Top, TakeSnapshot, StageTransportIngress, WaitForWork, WaitAfterBridgeError,
                arrivals, loop, egress, outcome
  <2>2. /\ pc' \in {"stopped", "drain", "stage", "ingest", "top", "parked", "parkedError"}
        /\ pc' \in {"stage", "ingest"} => pc \in {"snapshot", "stage"}
    BY <1>2 DEF Top, TakeSnapshot, StageTransportIngress, WaitForWork, WaitAfterBridgeError
  <2>3. QED BY <2>1, <2>2, EgressStays
<1>3. CASE Send
  BY <1>3, SendStep
<1>4. CASE DrainReadyCommands
  <2>1. UNCHANGED <<sends, flushing, handed>>
    BY <1>4 DEF DrainReadyCommands
  <2>2. CASE Round("wait", 0) /\ UNCHANGED <<commands, outbound, replies>>
    <3>1. pc' = "snapshot" /\ back'.send = 0
      BY <2>2 DEF Round
    <3>2. \A i \in 1 .. Len(commands) : back'.send < commands[i]
      BY <3>1 DEF EgressTypes
    <3>3. EgressOrdered'
      BY <2>1, <2>2, <3>1, <3>2 DEF EgressInv, EgressOrdered
    <3>4. RepliesRight'
      BY <2>1, <2>2 DEF EgressInv, RepliesRight, ReceiptMeansHandedOver
    <3>5. RoundCarriesSend'
      BY <3>1 DEF RoundCarriesSend
    <3>6. QED BY <3>3, <3>4, <3>5 DEF EgressInv
  <2>3. CASE pc' = "stopped" /\ UNCHANGED <<commands, back, outbound, replies>>
    BY <2>1, <2>3, EgressStays
  <2>4. CASE /\ commands # <<>> /\ commands' = Tail(commands)
             /\ HandleCommand(Head(commands), "drain")
    BY <2>1, <2>4, HandleStep
  <2>5. QED BY <1>4, <2>2, <2>3, <2>4 DEF DrainReadyCommands
<1>5. CASE IngestAndAdvanceRouter
  <2>1. pc = "ingest" /\ UNCHANGED <<sends, commands, outbound, flushing, handed, back>>
    BY <1>5 DEF IngestAndAdvanceRouter, arrivals, loop, egress
  <2>2. CASE pc' = "flush" /\ UNCHANGED replies
    BY <2>1, <2>2, EgressStays
  <2>3. CASE RoundFails
    BY <2>1, <2>3, RoundFailsStep
  <2>4. QED BY <1>5, <2>2, <2>3 DEF IngestAndAdvanceRouter, outcome
<1>6. CASE Park
  <2>1. UNCHANGED <<sends, flushing, handed>>
    BY <1>6 DEF Park
  <2>2. CASE pc' \in {"stopped", "top"} /\ UNCHANGED <<commands, back, outbound, replies>>
    BY <2>1, <2>2, EgressStays
  <2>3. CASE /\ commands # <<>> /\ commands' = Tail(commands)
             /\ HandleCommand(Head(commands), "top")
    BY <2>1, <2>3, HandleStep
  <2>4. QED BY <1>6, <2>2, <2>3 DEF Park
<1>7. QED
  BY <1>1, <1>2, <1>3, <1>4, <1>5, <1>6, FlushStep, DispatchStep, FinishStep DEF Next, ClientStep

-----------------------------------------------------------------------------
(* The client starts with empty queues and nothing answered.               *)
LEMMA InitClient ==
    ASSUME Init
    PROVE  ClientInv
<1>1. IngressTypes
  BY Capacities DEF Init, IngressTypes
<1>2. EgressTypes
  BY Capacities DEF Init, EgressTypes
<1>3. LoopTypes
  BY Capacities DEF Init, LoopTypes, Hint
<1>4. RoundHolds
  BY DEF Init, RoundHolds
<1>5. /\ mailbox = <<>> /\ pending = <<>> /\ ingested = <<>> /\ applied = <<>> /\ lost = {}
      /\ emitted = 0 /\ dropped = 0 /\ reported = 0
      /\ handed = <<>> /\ flushing = <<>> /\ outbound = <<>> /\ commands = <<>>
      /\ pc = "top" /\ back.send = 0 /\ Len(<<>>) = 0
      /\ \A n \in 1 .. MaxSends : replies[n] = "none"
  BY DEF Init
<1>6. IngressOrdered /\ EgressOrdered
  <2>1. 1 .. Len(commands) = {}
    BY <1>5
  <2>2. QED BY <1>5, <2>1, EmptyOrder DEF IngressOrdered, EgressOrdered
<1>7. IngressCounted
  BY <1>5, FS_EmptySet DEF IngressCounted
<1>8. RepliesRight /\ RoundCarriesSend
  BY <1>5 DEF RepliesRight, ReceiptMeansHandedOver, RoundCarriesSend
<1>9. runtimeUp \in BOOLEAN
  BY DEF Init
<1>10. QED BY <1>1, <1>2, <1>3, <1>4, <1>6, <1>7, <1>8, <1>9, TypeGroups DEF ClientInv, IngressInv,
              EgressInv

(* The client thread keeps its invariant.                                  *)
THEOREM ClientInvariant == Spec => []ClientInv
<1>1. Init => ClientInv
  BY InitClient
<1>2. ClientInv /\ [Next]_clientVars => ClientInv'
  <2> SUFFICES ASSUME ClientInv, [Next]_clientVars PROVE ClientInv'
    OBVIOUS
  <2>1. /\ IngressTypes /\ EgressTypes /\ LoopTypes /\ runtimeUp \in BOOLEAN /\ RoundHolds
        /\ IngressOrdered /\ IngressCounted /\ EgressInv
    BY TypeGroups DEF ClientInv, IngressInv
  <2>2. IngressTypes' /\ EgressTypes' /\ LoopTypes' /\ (runtimeUp \in BOOLEAN)' /\ RoundHolds'
    BY <2>1, IngressTypeStep, EgressTypeStep, LoopTypeStep, RuntimeUpStep, RoundHoldsStep
  <2>3. IngressOrdered' /\ IngressCounted' /\ EgressInv'
    BY <2>1, IngressStep, EgressStep
  <2>4. TypeOK' /\ Counters'
    BY <2>2 DEF TypeOK, Counters, IngressTypes, EgressTypes, LoopTypes
  <2>5. QED BY <2>2, <2>3, <2>4 DEF ClientInv, IngressInv
<1>3. QED BY <1>1, <1>2, PTL DEF Spec

(* The queues of the client never exceed their capacities, and every       *)
(* variable keeps its range.                                               *)
THEOREM TypeCorrect == Spec => []TypeOK
<1>1. ClientInv => TypeOK
  BY DEF ClientInv, IngressInv
<1>2. QED BY <1>1, ClientInvariant, PTL

(* However arrivals, rounds and failures interleave, no ingress event is   *)
(* applied twice or out of order, and every one that is not applied is     *)
(* under way, counted as dropped, or lost with a round that failed.        *)
THEOREM IngressIsAccounted == Spec => []IngressAccounted
<1>1. ClientInv => IngressAccounted
  <2> SUFFICES ASSUME ClientInv PROVE IngressAccounted
    OBVIOUS
  <2>1. DOMAIN applied = 1 .. Len(applied)
    BY DEF ClientInv, IngressInv, TypeOK
  <2>2. QED BY <2>1 DEF ClientInv, IngressInv, IngressOrdered, IngressCounted, Rising,
               IngressAccounted
<1>2. QED BY <1>1, ClientInvariant, PTL

(* A caller that gets a receipt can rely on its payload having been handed *)
(* to the runtime task, whatever rounds failed before.                     *)
THEOREM ReceiptsAreTrue == Spec => []ReceiptMeansHandedOver
<1>1. ClientInv => ReceiptMeansHandedOver
  BY DEF ClientInv, EgressInv, RepliesRight
<1>2. QED BY <1>1, ClientInvariant, PTL

(* A send reaches the runtime task at most once, in the order of the       *)
(* calls, and not at all if it was refused.                                *)
THEOREM HandedInOrder == Spec => []HandedOnceInOrder
<1>1. ClientInv => HandedOnceInOrder
  <2> SUFFICES ASSUME ClientInv PROVE HandedOnceInOrder
    OBVIOUS
  <2>1. DOMAIN handed = 1 .. Len(handed) /\ handed \in Seq(1 .. sends)
    BY DEF ClientInv, IngressInv, TypeOK
  <2>2. \A n \in ToSet(handed) : \E i \in 1 .. Len(handed) : handed[i] = n
    BY <2>1, ToSetMembers
  <2>3. QED BY <2>1, <2>2 DEF ClientInv, EgressInv, EgressOrdered, RepliesRight, Rising,
               HandedOnceInOrder
<1>2. QED BY <1>1, ClientInvariant, PTL

-----------------------------------------------------------------------------
(* The safety behind the answers and the wakeups: what the liveness        *)
(* properties need beyond a scheduler that is fair.                        *)

Rounds == {"snapshot", "stage", "ingest", "flush", "dispatch", "finish"}

(* Every send that was queued has been answered, is in the command queue,  *)
(* or is the one whose round is running: no failed, follow-up or shut-down *)
(* round leaves a caller that nobody will answer.                          *)
NoCallerForgotten ==
    \A n \in 1 .. sends :
        \/ replies[n] # "none"
        \/ \E i \in 1 .. Len(commands) : commands[i] = n
        \/ n = back.send /\ pc \in Rounds

(* A client that has parked with anything left to do, an event that came   *)
(* after its round had drained the mailbox included, has the notifier arm  *)
(* of its select ready or a timer running.                                 *)
NoWakeupLost ==
    /\ pc \in {"parked", "parkedError"}
    /\ mailbox # <<>> \/ pending # <<>> \/ outbound # <<>> \/ hint = "Immediate"
    => notifier # snapshot \/ TimerArmed

(* Only the rounds of the loop itself lead to the wait; from the drain of  *)
(* the mailbox on, what arrives moves the notifier past the snapshot.      *)
WakeupInv ==
    /\ back.send # 0 => back.to # "wait"
    /\ pc \in {"ingest", "flush", "dispatch", "finish", "wait", "parked"} /\ mailbox # <<>>
       => snapshot < notifier
    /\ pc = "parked" => ~AdvanceImmediately

(* Callers wait in the queue or for the running round, step by step.       *)
LEMMA CallersStep ==
    ASSUME EgressTypes, LoopTypes, NoCallerForgotten, [Next]_clientVars
    PROVE  NoCallerForgotten'
<1>1. CASE UNCHANGED <<sends, commands, replies, back>> /\ (pc \in Rounds => pc' \in Rounds)
  BY <1>1 DEF NoCallerForgotten
<1>2. CASE \/ EmitIngress \/ RequestRuntimeShutdown \/ RuntimeTakes \/ RuntimeStops
           \/ UNCHANGED clientVars
  <2>1. UNCHANGED <<sends, commands, replies, back, pc>>
    BY <1>2 DEF EmitIngress, RequestRuntimeShutdown, RuntimeTakes, RuntimeStops, clientVars,
                arrivals, loop, outcome
  <2>2. QED BY <1>1, <2>1
<1>3. CASE \/ Top \/ TakeSnapshot \/ StageTransportIngress \/ FlushOutbound
           \/ WaitForWork \/ WaitAfterBridgeError
  <2>1. UNCHANGED <<sends, commands, replies, back>>
    BY <1>3 DEF Top, TakeSnapshot, StageTransportIngress, FlushOutbound, WaitForWork,
                WaitAfterBridgeError, arrivals, loop, outcome
  <2>2. pc \in Rounds => pc' \in Rounds
    BY <1>3 DEF Top, TakeSnapshot, StageTransportIngress, FlushOutbound, WaitForWork,
                WaitAfterBridgeError, Rounds
  <2>3. QED BY <1>1, <2>1, <2>2
<1>4. CASE Send
  <2>1. /\ sends' = sends + 1 /\ commands' = Append(commands, sends + 1)
        /\ UNCHANGED <<replies, back, pc>>
    BY <1>4 DEF Send, loop, outcome
  <2>2. Len(commands') = Len(commands) + 1 /\ commands'[Len(commands) + 1] = sends + 1
        /\ \A i \in 1 .. Len(commands) : commands'[i] = commands[i]
    BY <2>1 DEF EgressTypes
  <2>3. Len(commands) \in Nat /\ sends \in Nat
    BY DEF EgressTypes
  <2>4. \A n \in 1 .. sends' : n \in 1 .. sends \/ n = sends + 1
    BY <2>1, <2>3
  <2>5. QED BY <2>1, <2>2, <2>3, <2>4 DEF NoCallerForgotten
<1>5. ASSUME pc \notin Rounds, commands # <<>>, commands' = Tail(commands),
             NEW to \in {"drain", "top"}, HandleCommand(Head(commands), to), sends' = sends
      PROVE  NoCallerForgotten'
  <2>1. Len(commands') = Len(commands) - 1 /\ Len(commands) \in Nat /\ Len(commands) >= 1
        /\ Head(commands) = commands[1]
        /\ \A i \in 1 .. Len(commands') : commands'[i] = commands[i + 1]
    BY <1>5 DEF EgressTypes
  <2>2. ASSUME NEW i \in 1 .. Len(commands), commands[i] # Head(commands)
        PROVE  \E j \in 1 .. Len(commands') : commands'[j] = commands[i]
    <3>1. i - 1 \in 1 .. Len(commands') /\ (i - 1) + 1 = i
      BY <2>1, <2>2
    <3>2. QED BY <3>1, <2>1
  <2>3. Head(commands) \in 1 .. MaxSends
    BY <1>5, HandleCommandEffect, Capacities DEF EgressTypes
  <2>4. \A n \in 1 .. MaxSends : replies[n] # "none" => replies'[n] # "none"
    BY <1>5, <2>3, HandleCommandEffect DEF EgressTypes
  <2>5. \/ replies'[Head(commands)] # "none"
        \/ Head(commands) = back'.send /\ pc' \in Rounds
    <3>1. \/ replies' = [replies EXCEPT ![Head(commands)] = "refused"]
          \/ pc' = "snapshot" /\ back' = [to |-> to, send |-> Head(commands)]
      BY <1>5, HandleCommandEffect
    <3>2. replies' = [replies EXCEPT ![Head(commands)] = "refused"]
             => replies'[Head(commands)] # "none"
      BY <2>3 DEF EgressTypes
    <3>3. QED BY <3>1, <3>2 DEF Rounds
  <2>6. \A n \in 1 .. sends : n \in 1 .. MaxSends
    BY Capacities DEF EgressTypes
  <2>7. ASSUME NEW n \in 1 .. sends'
        PROVE  \/ replies'[n] # "none"
               \/ \E i \in 1 .. Len(commands') : commands'[i] = n
               \/ n = back'.send /\ pc' \in Rounds
    <3>1. CASE replies[n] # "none"
      BY <1>5, <2>4, <2>6, <3>1
    <3>2. CASE n = Head(commands)
      BY <2>5, <3>2
    <3>3. CASE n # Head(commands) /\ \E i \in 1 .. Len(commands) : commands[i] = n
      BY <2>2, <3>3
    <3>4. QED BY <1>5, <3>1, <3>2, <3>3 DEF NoCallerForgotten
  <2>8. QED BY <2>7 DEF NoCallerForgotten
<1>6. CASE DrainReadyCommands
  <2>1. pc = "drain" /\ pc \notin Rounds /\ sends' = sends
    BY <1>6 DEF DrainReadyCommands, Rounds
  <2>2. CASE UNCHANGED <<commands, replies>>
    BY <2>1, <2>2 DEF NoCallerForgotten
  <2>3. CASE /\ commands # <<>> /\ commands' = Tail(commands)
             /\ HandleCommand(Head(commands), "drain")
    BY <1>5, <2>1, <2>3
  <2>4. QED BY <1>6, <2>2, <2>3 DEF DrainReadyCommands
<1>7. CASE Park
  <2>1. pc \notin Rounds /\ sends' = sends
    BY <1>7 DEF Park, Rounds
  <2>2. CASE UNCHANGED <<commands, replies>>
    BY <2>1, <2>2 DEF NoCallerForgotten
  <2>3. CASE /\ commands # <<>> /\ commands' = Tail(commands)
             /\ HandleCommand(Head(commands), "top")
    BY <1>5, <2>1, <2>3
  <2>4. QED BY <1>7, <2>2, <2>3 DEF Park
<1>8. ASSUME RoundFails, UNCHANGED <<sends, commands, back>>
      PROVE  NoCallerForgotten'
  <2>1. \A n \in 1 .. sends : n \in 1 .. MaxSends
    BY Capacities DEF EgressTypes
  <2>2. QED BY <1>8, <2>1, RoundFailsEffect DEF NoCallerForgotten
<1>9. CASE IngestAndAdvanceRouter
  <2>1. pc = "ingest" /\ UNCHANGED <<sends, commands, back>>
    BY <1>9 DEF IngestAndAdvanceRouter, arrivals, loop
  <2>2. CASE pc' = "flush" /\ UNCHANGED replies
    BY <1>1, <2>1, <2>2 DEF Rounds
  <2>3. QED BY <1>8, <1>9, <2>1, <2>2 DEF IngestAndAdvanceRouter, outcome
<1>10. CASE Dispatch
  <2>1. pc = "dispatch" /\ UNCHANGED <<sends, commands, back>>
    BY <1>10 DEF Dispatch, arrivals, loop
  <2>2. CASE pc' = "finish" /\ UNCHANGED replies
    BY <1>1, <2>1, <2>2 DEF Rounds
  <2>3. QED BY <1>8, <1>10, <2>1, <2>2 DEF Dispatch, outcome
<1>11. CASE FinishRound
  <2>1. UNCHANGED <<sends, commands, back>>
    BY <1>11, FinishEffect
  <2>2. CASE pc' = "snapshot" /\ UNCHANGED replies
    BY <1>1, <2>1, <2>2 DEF Rounds
  <2>3. CASE replies' = IF back.send = 0 THEN replies ELSE [replies EXCEPT ![back.send] = "ok"]
    <3>1. \A n \in 1 .. sends : n \in 1 .. MaxSends /\ n # 0
      BY Capacities DEF EgressTypes
    <3>2. \A n \in 1 .. MaxSends :
              IF n = back.send THEN replies'[n] = "ok" ELSE replies'[n] = replies[n]
      BY <2>3, Capacities DEF EgressTypes
    <3>3. QED BY <2>1, <3>1, <3>2 DEF NoCallerForgotten
  <2>4. QED BY <1>11, <2>2, <2>3 DEF FinishRound
<1>12. QED
  BY <1>2, <1>3, <1>4, <1>6, <1>7, <1>9, <1>10, <1>11 DEF Next, ClientStep

(* The snapshot stays behind what arrives, step by step.                   *)
LEMMA WakeupStep ==
    ASSUME IngressTypes, EgressTypes, LoopTypes, WakeupInv, [Next]_clientVars
    PROVE  WakeupInv'
<1> DEFINE Watching == {"ingest", "flush", "dispatch", "finish", "wait", "parked"}
<1>1. snapshot \in Nat /\ notifier \in Nat /\ snapshot <= notifier
  BY DEF IngressTypes, LoopTypes
<1>2. ASSUME UNCHANGED back, pc' \notin Watching
      PROVE  WakeupInv'
  BY <1>2 DEF WakeupInv
<1>3. ASSUME UNCHANGED <<back, mailbox, notifier, snapshot>>, pc \in Watching, pc' # "parked"
      PROVE  WakeupInv'
  BY <1>3 DEF WakeupInv
<1>4. CASE EmitIngress
  <2>1. notifier' = notifier + 1 /\ UNCHANGED <<pc, back, snapshot, pending, outbound, hint>>
    BY <1>4 DEF EmitIngress, loop, bridge, egress
  <2>2. snapshot' < notifier'
    BY <1>1, <2>1
  <2>3. QED BY <2>1, <2>2 DEF WakeupInv, AdvanceImmediately
<1>5. CASE RuntimeTakes \/ RuntimeStops \/ Send \/ RequestRuntimeShutdown \/ UNCHANGED clientVars
  <2>1. UNCHANGED <<pc, back, mailbox, notifier, snapshot, pending, outbound, hint>>
    BY <1>5 DEF RuntimeTakes, RuntimeStops, Send, RequestRuntimeShutdown, clientVars, arrivals,
                loop, bridge, egress
  <2>2. QED BY <2>1 DEF WakeupInv, AdvanceImmediately
<1>6. CASE Top \/ TakeSnapshot \/ WaitAfterBridgeError
  <2>1. pc' \notin Watching /\ UNCHANGED back
    BY <1>6 DEF Top, TakeSnapshot, WaitAfterBridgeError, loop
  <2>2. QED BY <1>2, <2>1
<1>7. CASE StageTransportIngress
  <2>1. pc' = "ingest" /\ mailbox' = <<>> /\ UNCHANGED back
    BY <1>7 DEF StageTransportIngress, loop
  <2>2. QED BY <2>1 DEF WakeupInv
<1>8. ASSUME commands # <<>>, commands' = Tail(commands), NEW to \in {"drain", "top"},
             HandleCommand(Head(commands), to)
      PROVE  WakeupInv'
  <2>1. /\ pc' \in {to, "snapshot"}
        /\ \/ UNCHANGED back
           \/ back' = [to |-> to, send |-> Head(commands)]
    BY <1>8, HandleCommandEffect
  <2>2. pc' \notin Watching /\ (back'.send # 0 => back'.to # "wait")
    BY <2>1 DEF WakeupInv
  <2>3. QED BY <2>2 DEF WakeupInv
<1>9. CASE DrainReadyCommands
  <2>1. CASE Round("wait", 0)
    <3>1. pc' = "snapshot" /\ back'.send = 0
      BY <2>1 DEF Round
    <3>2. QED BY <3>1 DEF WakeupInv
  <2>2. CASE pc' = "stopped" /\ UNCHANGED back
    BY <1>2, <2>2
  <2>3. CASE /\ commands # <<>> /\ commands' = Tail(commands)
             /\ HandleCommand(Head(commands), "drain")
    BY <1>8, <2>3
  <2>4. QED BY <1>9, <2>1, <2>2, <2>3 DEF DrainReadyCommands
<1>10. CASE Park
  <2>1. CASE pc' \in {"stopped", "top"} /\ UNCHANGED back
    BY <1>2, <2>1
  <2>2. CASE /\ commands # <<>> /\ commands' = Tail(commands)
             /\ HandleCommand(Head(commands), "top")
    BY <1>8, <2>2
  <2>3. QED BY <1>10, <2>1, <2>2 DEF Park
<1>11. ASSUME RoundFails, UNCHANGED back
       PROVE  WakeupInv'
  <2>1. back.to \in {"wait", "drain", "top"} /\ (back.send # 0 => back.to # "wait")
    BY DEF LoopTypes, WakeupInv
  <2>2. pc' \notin Watching
    BY <1>11, <2>1 DEF RoundFails
  <2>3. QED BY <1>2, <1>11, <2>2
<1>12. CASE IngestAndAdvanceRouter
  <2>1. pc = "ingest" /\ UNCHANGED <<back, mailbox, notifier, snapshot>>
    BY <1>12 DEF IngestAndAdvanceRouter, arrivals, loop
  <2>2. QED BY <1>3, <1>11, <1>12, <2>1 DEF IngestAndAdvanceRouter
<1>13. CASE FlushOutbound
  <2>1. /\ pc = "flush" /\ pc' \in {"finish", "dispatch"}
        /\ UNCHANGED <<back, mailbox, notifier, snapshot>>
    BY <1>13 DEF FlushOutbound, arrivals, loop, bridge
  <2>2. QED BY <1>3, <2>1
<1>14. CASE Dispatch
  <2>1. pc = "dispatch" /\ UNCHANGED <<back, mailbox, notifier, snapshot>>
    BY <1>14 DEF Dispatch, arrivals, loop
  <2>2. QED BY <1>3, <1>11, <1>14, <2>1 DEF Dispatch
<1>15. CASE FinishRound
  <2>1. pc = "finish" /\ pc' # "parked" /\ UNCHANGED <<back, notifier, snapshot>>
    BY <1>15, FinishEffect
  <2>2. UNCHANGED mailbox
    BY <1>15 DEF FinishRound, arrivals
  <2>3. QED BY <1>3, <2>1, <2>2
<1>16. CASE WaitForWork
  <2>1. pc = "wait" /\ UNCHANGED <<back, mailbox, notifier, snapshot, pending, outbound, hint>>
    BY <1>16 DEF WaitForWork, arrivals, loop, bridge, egress
  <2>2. pc' = "top" \/ (pc' = "parked" /\ ~AdvanceImmediately)
    BY <1>16 DEF WaitForWork
  <2>3. AdvanceImmediately' = AdvanceImmediately
    BY <2>1 DEF AdvanceImmediately
  <2>4. QED BY <2>1, <2>2, <2>3 DEF WakeupInv
<1>17. QED
  BY <1>4, <1>5, <1>6, <1>7, <1>9, <1>10, <1>12, <1>13, <1>14, <1>15, <1>16 DEF Next, ClientStep

(* No caller of send is ever left without its answer, its place in the     *)
(* queue or the round it waits for.                                        *)
THEOREM CallersKept == Spec => []NoCallerForgotten
<1>1. Init => NoCallerForgotten
  BY DEF Init, NoCallerForgotten
<1>2. ClientInv /\ NoCallerForgotten /\ [Next]_clientVars => NoCallerForgotten'
  BY CallersStep, TypeGroups DEF ClientInv, IngressInv
<1>3. QED BY <1>1, <1>2, ClientInvariant, PTL DEF Spec

(* The client never sleeps on work: an ingress event that slips in between *)
(* the drain of a round and the park that follows it wakes the select.     *)
THEOREM WakeupsKept == Spec => []NoWakeupLost
<1>1. Init => WakeupInv
  BY DEF Init, WakeupInv
<1>2. ClientInv /\ WakeupInv /\ [Next]_clientVars => WakeupInv'
  BY WakeupStep, TypeGroups DEF ClientInv, IngressInv
<1>3. ClientInv /\ WakeupInv => NoWakeupLost
  <2> SUFFICES ASSUME ClientInv, WakeupInv PROVE NoWakeupLost
    OBVIOUS
  <2>1. snapshot \in Nat /\ notifier \in Nat
    BY TypeGroups DEF ClientInv, IngressInv, IngressTypes, LoopTypes
  <2>2. snapshot < notifier => notifier # snapshot
    BY <2>1
  <2>3. QED BY <2>2 DEF WakeupInv, NoWakeupLost, AdvanceImmediately, TimerArmed
<1>4. QED BY <1>1, <1>2, <1>3, ClientInvariant, PTL DEF Spec
=============================================================================
