--------------------------- MODULE Startup_proofs ---------------------------
(***************************************************************************)
(* Proofs about startup across power changes: what the task believes once  *)
(* it has seen every power change is what the platform does, it waits for  *)
(* power exactly when there is none, and with power it leaves nothing out. *)
(***************************************************************************)
EXTENDS Startup, TLAPS

(* A value occurs in a queue. *)
Occurs(q, b) == \E i \in 1 .. Len(q) : q[i] = b

(* A power loss the task has not seen yet. *)
OffPending(r) == Occurs(events[r], FALSE)
OnPending(r) == Occurs(events[r], TRUE)

(* The last power event on a stream is about the present.                  *)
LastIsNow ==
    \A r \in {"central", "peripheral"} :
        events[r] # <<>> => events[r][Len(events[r])] = powered

(* An L2CAP step is unsupported only without L2CAP, and then there never   *)
(* is a PSM.                                                               *)
SupportKnown ==
    /\ startup.l2cap = "Unsupported" => ~l2capSupported
    /\ ~l2capSupported => localPsm = None /\ listener = None

(* The peripheral steps wait for power together, and the service comes     *)
(* after the listener.                                                     *)
StepsOrdered ==
    /\ startup.l2cap = "WaitingForPower" => startup.gatt = "WaitingForPower"
    /\ startup.l2cap \in {"Pending", "Retry"} => startup.gatt # "Started"

(* What the task believes started is running, or the task has a power loss *)
(* still to see.                                                           *)
L2capRuns ==
    startup.l2cap = "Started" =>
        OffPending("peripheral") \/ (listener # None /\ listener = localPsm)
GattRuns ==
    startup.gatt = "Started" /\ ~restoredService =>
        OffPending("peripheral") \/ service = Service(listener)
AdvertisingRuns ==
    startup.advertising = "Started" =>
        \/ OffPending("peripheral")
        \/ advertised # {} /\ (restoredService \/ service # None)
ScanRuns ==
    startup.scan = "Started" => OffPending("central") \/ scanning

BelievedRuns == L2capRuns /\ GattRuns /\ AdvertisingRuns /\ ScanRuns

StartupInv ==
    /\ TypeOK
    /\ LastIsNow
    /\ SupportKnown
    /\ StepsOrdered
    /\ BelievedRuns

-----------------------------------------------------------------------------
(* A step that waits has no power, or a power event still to see.          *)
WaitingIsOff ==
    /\ \A k \in {"l2cap", "gatt", "advertising"} :
          startup[k] = "WaitingForPower" => ~powered \/ OnPending("peripheral")
    /\ startup.scan = "WaitingForPower" => ~powered \/ OnPending("central")

(* Without power a step waits, or has a power loss still to see, or comes  *)
(* after a query the task has still to make.                               *)
OffIsWaiting ==
    ~powered =>
        /\ \A k \in {"l2cap", "gatt", "advertising"} :
              \/ startup[k] \in {"WaitingForPower", "Unsupported"}
              \/ OffPending("peripheral")
              \/ pc = "peripheral"
        /\ \/ startup.scan = "WaitingForPower"
           \/ OffPending("central")
           \/ pc \in {"peripheral", "l2cap", "gatt", "advertising", "central"}

-----------------------------------------------------------------------------
(* Queues of power events *)

(* Appending puts its value last and keeps what occurred before.           *)
LEMMA AppendOccurs ==
    ASSUME NEW S, NEW q \in Seq(S), NEW x \in S
    PROVE  /\ Append(q, x) \in Seq(S)
           /\ Append(q, x) # <<>>
           /\ Append(q, x)[Len(Append(q, x))] = x
           /\ Occurs(Append(q, x), x)
           /\ \A y : Occurs(q, y) => Occurs(Append(q, x), y)
  BY DEF Occurs

(* Taking the head keeps the last value and whatever else occurred.        *)
LEMMA TailOccurs ==
    ASSUME NEW S, NEW q \in Seq(S), q # <<>>
    PROVE  /\ Head(q) \in S
           /\ Tail(q) \in Seq(S)
           /\ Occurs(q, q[Len(q)])
           /\ Tail(q) # <<>> => Tail(q)[Len(Tail(q))] = q[Len(q)]
           /\ \A y : Occurs(q, y) /\ Head(q) # y => Occurs(Tail(q), y)
<1>1. Head(q) \in S /\ Tail(q) \in Seq(S) /\ Occurs(q, q[Len(q)])
  BY DEF Occurs
<1>2. Len(Tail(q)) = Len(q) - 1 /\ \A i \in 1 .. Len(Tail(q)) : Tail(q)[i] = q[i + 1]
  OBVIOUS
<1>3. Tail(q) # <<>> => Tail(q)[Len(Tail(q))] = q[Len(q)]
  BY <1>1, <1>2
<1>4. ASSUME NEW y, Occurs(q, y), Head(q) # y
      PROVE  Occurs(Tail(q), y)
  <2>1. PICK i \in 1 .. Len(q) : q[i] = y
    BY <1>4 DEF Occurs
  <2>2. i # 1
    BY <1>4, <2>1
  <2>3. i - 1 \in 1 .. Len(Tail(q)) /\ Tail(q)[i - 1] = y
    BY <1>2, <2>1, <2>2
  <2>4. QED BY <2>3 DEF Occurs
<1>5. QED BY <1>1, <1>3, <1>4

(* Nothing occurs in an empty queue.                                       *)
LEMMA EmptyOccurs ==
    ASSUME NEW y
    PROVE  ~Occurs(<<>>, y)
  BY DEF Occurs

(* A power change reaches both streams.                                    *)
LEMMA ToggleEvents ==
    ASSUME TypeOK, TogglePower
    PROVE  /\ powered' \in BOOLEAN
           /\ events' \in [central : Seq(BOOLEAN), peripheral : Seq(BOOLEAN)]
           /\ \A r \in {"central", "peripheral"} :
                 /\ events[r] \in Seq(BOOLEAN)
                 /\ events'[r] = Append(events[r], powered')
<1>1. DOMAIN events = {"central", "peripheral"}
  BY DEF TypeOK
<1>2. \A r \in {"central", "peripheral"} : events[r] \in Seq(BOOLEAN)
  BY DEF TypeOK
<1>3. powered' = ~powered /\ powered' \in BOOLEAN
  BY DEF TogglePower, TypeOK
<1>4. events' = [r \in {"central", "peripheral"} |-> Append(events[r], powered')]
  <2>1. events' = [r \in DOMAIN events |-> Append(events[r], ~powered)] /\ powered' = ~powered
    BY DEF TogglePower
  <2>2. QED BY <1>1, <2>1
<1>5. \A r \in {"central", "peripheral"} : Append(events[r], powered') \in Seq(BOOLEAN)
  BY <1>2, <1>3, AppendOccurs
<1>6. QED BY <1>2, <1>3, <1>4, <1>5

(* Handling a power event takes it off its own stream.                     *)
LEMMA HandleEvents ==
    ASSUME TypeOK, HandleCentralPower \/ HandlePeripheralPower
    PROVE  events' \in [central : Seq(BOOLEAN), peripheral : Seq(BOOLEAN)]
<1>1. events.central \in Seq(BOOLEAN) /\ events.peripheral \in Seq(BOOLEAN)
  BY DEF TypeOK
<1>2. CASE HandleCentralPower
  BY <1>1, <1>2, TailOccurs DEF HandleCentralPower, TypeOK
<1>3. CASE HandlePeripheralPower
  BY <1>1, <1>3, TailOccurs DEF HandlePeripheralPower, TypeOK
<1>4. QED BY <1>2, <1>3

-----------------------------------------------------------------------------
(* Types *)

StartupType == [l2cap : StartupStep, gatt : StartupStep \ {"Unsupported"},
                advertising : StartupStep \ {"Unsupported"},
                scan : StartupStep \ {"Unsupported"}]

(* Both power transitions yield steps, whatever the power is.              *)
LEMMA PowerChangedType ==
    ASSUME NEW st \in StartupType, NEW on
    PROVE  CentralPowerChanged(st, on) \in StartupType /\ PeripheralPowerChanged(st, on) \in StartupType
<1>1. StepFor(on) \in {"Pending", "WaitingForPower"}
  BY DEF StepFor
<1>2. CentralPowerChanged(st, on) \in StartupType
  BY <1>1, Zenon DEF CentralPowerChanged, StartupType, StartupStep
<1>3. PeripheralPowerChanged(st, on) \in StartupType
  <2> DEFINE l2cap == IF st.l2cap = "Unsupported" THEN st.l2cap ELSE StepFor(on)
             a == [st EXCEPT !.l2cap = l2cap]
             b == [a EXCEPT !.gatt = StepFor(on)]
  <2>1. l2cap \in StartupStep
    BY <1>1 DEF StartupType, StartupStep
  <2>2. PeripheralPowerChanged(st, on) = [b EXCEPT !.advertising = StepFor(on)]
    BY DEF PeripheralPowerChanged
  <2> HIDE DEF l2cap
  <2>3. a \in StartupType
    BY <2>1, Zenon DEF StartupType
  <2> HIDE DEF a
  <2>4. b \in StartupType
    BY <1>1, <2>3, Zenon DEF StartupType, StartupStep
  <2> HIDE DEF b
  <2>5. [b EXCEPT !.advertising = StepFor(on)] \in StartupType
    BY <1>1, <2>4, Zenon DEF StartupType, StartupStep
  <2>6. QED BY <2>2, <2>5
<1>4. QED BY <1>2, <1>3

(* Every step of the task and every power change keeps every variable in   *)
(* its range.                                                              *)
LEMMA TypeStep ==
    ASSUME TypeOK, [Next]_startupVars
    PROVE  TypeOK'
<1> USE StartupAssumption
<1>0. startup \in StartupType /\ MaxToggles \in Nat /\ MaxFailures \in Nat
  BY DEF TypeOK, StartupType
<1>1. CASE TogglePower
  <2>1. events' \in [central : Seq(BOOLEAN), peripheral : Seq(BOOLEAN)]
    BY <1>1, ToggleEvents
  <2>2. toggles' \in 0 .. MaxToggles /\ failures' \in 0 .. MaxFailures
    BY <1>1 DEF TogglePower, TypeOK
  <2>3. powered' \in BOOLEAN
    BY <1>1 DEF TogglePower, TypeOK
  <2>4. /\ listener' \in Psm \cup {None}
        /\ service' \in {Service(p) : p \in Psm \cup {None}} \cup {None}
        /\ advertised' \in SUBSET {IdentityServiceUuid}
        /\ scanning' \in BOOLEAN
    BY <1>1 DEF TogglePower, TypeOK, platform
  <2>5. UNCHANGED <<startup, localPsm, pc, l2capSupported, restoredService>>
    BY <1>1 DEF TogglePower, task, fixed
  <2>6. QED BY <2>1, <2>2, <2>3, <2>4, <2>5 DEF TypeOK
<1>2. CASE HandleCentralPower \/ HandlePeripheralPower
  <2>1. events' \in [central : Seq(BOOLEAN), peripheral : Seq(BOOLEAN)]
    BY <1>2, HandleEvents
  <2>2. startup' \in StartupType
    BY <1>0, <1>2, PowerChangedType DEF HandleCentralPower, HandlePeripheralPower
  <2>3. pc' \in {"select", "peripheral"}
    BY <1>2 DEF HandleCentralPower, HandlePeripheralPower
  <2>4. UNCHANGED <<localPsm, powered, listener, service, advertised, scanning,
                    l2capSupported, restoredService, toggles, failures>>
    BY <1>2 DEF HandleCentralPower, HandlePeripheralPower, platform, fixed, budget
  <2>5. QED BY <2>1, <2>2, <2>3, <2>4 DEF TypeOK, StartupType
<1>3. CASE RetryStartup
  BY <1>3 DEF RetryStartup, TypeOK, platform, fixed, budget
<1>4. CASE QueryPeripheral \/ QueryCentral
  <2>1. startup' \in StartupType
    BY <1>0, <1>4, PowerChangedType DEF QueryPeripheral, QueryCentral
  <2>2. failures' \in 0 .. MaxFailures
    <3>1. CallSucceeds \/ CallFails
      BY <1>4 DEF QueryPeripheral, QueryCentral, QueryAnswersOff
    <3>2. QED BY <1>0, <3>1 DEF CallSucceeds, CallFails, TypeOK
  <2>3. pc' \in {"select", "l2cap", "central", "scan"}
    BY <1>4 DEF QueryPeripheral, QueryCentral
  <2>4. UNCHANGED <<localPsm, powered, events, listener, service, advertised, scanning,
                    l2capSupported, restoredService, toggles>>
    BY <1>4 DEF QueryPeripheral, QueryCentral, platform, fixed
  <2>5. QED BY <2>1, <2>2, <2>3, <2>4 DEF TypeOK, StartupType
<1>5. CASE TryStartL2capListener
  <2>1. startup' \in StartupType
    BY <1>0, <1>5 DEF TryStartL2capListener, StartupType, StartupStep
  <2>2. failures' \in 0 .. MaxFailures
    BY <1>0, <1>5 DEF TryStartL2capListener, CallSucceeds, CallFails, TypeOK
  <2>3. localPsm' \in Psm \cup {None} /\ listener' \in Psm \cup {None} /\ pc' = "gatt"
    BY <1>5 DEF TryStartL2capListener, TypeOK
  <2>4. UNCHANGED <<powered, events, service, advertised, scanning,
                    l2capSupported, restoredService, toggles>>
    BY <1>5 DEF TryStartL2capListener, fixed
  <2>5. QED BY <2>1, <2>2, <2>3, <2>4 DEF TypeOK, StartupType
<1>6. CASE TryStartGattService
  <2>1. startup' \in StartupType
    BY <1>0, <1>6 DEF TryStartGattService, StartupType, StartupStep
  <2>2. failures' \in 0 .. MaxFailures
    BY <1>0, <1>6 DEF TryStartGattService, CallSucceeds, CallFails, TypeOK
  <2>3. service' \in {Service(p) : p \in Psm \cup {None}} \cup {None} /\ pc' = "advertising"
    BY <1>6 DEF TryStartGattService, TypeOK
  <2>4. UNCHANGED <<localPsm, powered, events, listener, advertised, scanning,
                    l2capSupported, restoredService, toggles>>
    BY <1>6 DEF TryStartGattService, fixed
  <2>5. QED BY <2>1, <2>2, <2>3, <2>4 DEF TypeOK, StartupType
<1>7. CASE TryStartAdvertising
  <2>1. startup' \in StartupType
    BY <1>0, <1>7 DEF TryStartAdvertising, StartupType, StartupStep
  <2>2. failures' \in 0 .. MaxFailures
    BY <1>0, <1>7 DEF TryStartAdvertising, CallSucceeds, CallFails, TypeOK
  <2>3. advertised' \in SUBSET {IdentityServiceUuid} /\ pc' = "central"
    BY <1>7 DEF TryStartAdvertising, TypeOK
  <2>4. UNCHANGED <<localPsm, powered, events, listener, service, scanning,
                    l2capSupported, restoredService, toggles>>
    BY <1>7 DEF TryStartAdvertising, fixed
  <2>5. QED BY <2>1, <2>2, <2>3, <2>4 DEF TypeOK, StartupType
<1>8. CASE TryStartScan
  <2>1. startup' \in StartupType
    BY <1>0, <1>8 DEF TryStartScan, StartupType, StartupStep
  <2>2. failures' \in 0 .. MaxFailures
    BY <1>0, <1>8 DEF TryStartScan, CallSucceeds, CallFails, TypeOK
  <2>3. scanning' \in BOOLEAN /\ pc' = "select"
    BY <1>8 DEF TryStartScan, TypeOK
  <2>4. UNCHANGED <<localPsm, powered, events, listener, service, advertised,
                    l2capSupported, restoredService, toggles>>
    BY <1>8 DEF TryStartScan, fixed
  <2>5. QED BY <2>1, <2>2, <2>3, <2>4 DEF TypeOK, StartupType
<1>9. CASE UNCHANGED startupVars
  BY <1>9 DEF startupVars, task, platform, fixed, budget, TypeOK
<1>10. QED BY <1>1, <1>2, <1>3, <1>4, <1>5, <1>6, <1>7, <1>8, <1>9 DEF Next, TaskStep

(* The radio is down and nothing has been tried at the start.              *)
LEMMA InitType ==
    ASSUME Init
    PROVE  TypeOK
<1>1. startup \in StartupType
  BY DEF Init, StartupType, StartupStep
<1>2. events \in [central : Seq(BOOLEAN), peripheral : Seq(BOOLEAN)]
  BY DEF Init
<1>3. service \in {Service(p) : p \in Psm \cup {None}} \cup {None}
  BY DEF Init
<1>4. toggles \in 0 .. MaxToggles /\ failures \in 0 .. MaxFailures
  BY StartupAssumption DEF Init
<1>5. {l2capSupported, restoredService} \subseteq BOOLEAN /\ powered \in BOOLEAN /\ scanning \in BOOLEAN
  BY DEF Init
<1>6. localPsm = None /\ pc = "peripheral" /\ listener = None /\ advertised = {}
  BY DEF Init
<1>7. QED BY <1>1, <1>2, <1>3, <1>4, <1>5, <1>6 DEF TypeOK, StartupType

(* Only the L2CAP step is ever unsupported, and every other variable stays *)
(* in its range.                                                           *)
THEOREM TypeCorrect == Spec => []TypeOK
<1>1. Init => TypeOK
  BY InitType
<1>2. TypeOK /\ [Next]_startupVars => TypeOK'
  BY TypeStep
<1>3. QED BY <1>1, <1>2, PTL DEF Spec

-----------------------------------------------------------------------------
(* Pending power events *)

Role == {"central", "peripheral"}

(* A power change is pending on both streams, with all that was before.    *)
LEMMA TogglePending ==
    ASSUME TypeOK, TogglePower, NEW r \in Role
    PROVE  /\ powered => OffPending(r)'
           /\ ~powered => OnPending(r)'
           /\ OffPending(r) => OffPending(r)'
           /\ OnPending(r) => OnPending(r)'
<1>1. /\ events[r] \in Seq(BOOLEAN)
      /\ powered' \in BOOLEAN
      /\ events'[r] = Append(events[r], powered')
  BY ToggleEvents DEF Role
<1>2. /\ Occurs(events'[r], powered')
      /\ \A y : Occurs(events[r], y) => Occurs(events'[r], y)
  BY <1>1, AppendOccurs
<1>3. (powered => powered' = FALSE) /\ (~powered => powered' = TRUE)
  BY DEF TogglePower
<1>4. QED BY <1>2, <1>3 DEF OffPending, OnPending

(* Other steps than power changes and handlers leave the streams alone.    *)
LEMMA PendingUnchanged ==
    ASSUME NEW r \in Role, events'[r] = events[r]
    PROVE  (OffPending(r)' <=> OffPending(r)) /\ (OnPending(r)' <=> OnPending(r))
  BY DEF OffPending, OnPending

(* Handling a power event leaves the last one of the stream in place, and  *)
(* any event that says the opposite of the one handled.                    *)
LEMMA HandlePending ==
    ASSUME TypeOK, NEW r \in Role, events[r] # <<>>, events'[r] = Tail(events[r])
    PROVE  /\ OffPending(r) /\ Head(events[r]) => OffPending(r)'
           /\ OnPending(r) /\ ~Head(events[r]) => OnPending(r)'
           /\ events'[r] # <<>> => events'[r][Len(events'[r])] = events[r][Len(events[r])]
           /\ Occurs(events[r], events[r][Len(events[r])])
           /\ Head(events[r]) \in BOOLEAN
<1>1. events[r] \in Seq(BOOLEAN)
  BY DEF TypeOK, Role
<1>2. /\ Head(events[r]) \in BOOLEAN
      /\ Occurs(events[r], events[r][Len(events[r])])
      /\ events'[r] # <<>> => events'[r][Len(events'[r])] = events[r][Len(events[r])]
      /\ \A y : Occurs(events[r], y) /\ Head(events[r]) # y => Occurs(events'[r], y)
  BY <1>1, TailOccurs
<1>3. ASSUME OffPending(r), Head(events[r])
      PROVE  OffPending(r)'
  BY <1>2, <1>3 DEF OffPending
<1>4. ASSUME OnPending(r), ~Head(events[r])
      PROVE  OnPending(r)'
  BY <1>2, <1>4 DEF OnPending
<1>5. QED BY <1>2, <1>3, <1>4

(* Handling an event of one stream.                                        *)
LEMMA HandleStreams ==
    ASSUME TypeOK
    PROVE  /\ HandleCentralPower =>
                 /\ events.central # <<>>
                 /\ events'.central = Tail(events.central)
                 /\ events'.peripheral = events.peripheral
           /\ HandlePeripheralPower =>
                 /\ events.peripheral # <<>>
                 /\ events'.peripheral = Tail(events.peripheral)
                 /\ events'.central = events.central
  BY DEF TypeOK, HandleCentralPower, HandlePeripheralPower

(* The steps that change no stream.                                        *)
LEMMA QuietStep ==
    ASSUME [Next]_startupVars, ~TogglePower, ~HandleCentralPower, ~HandlePeripheralPower
    PROVE  UNCHANGED <<events, powered, l2capSupported, restoredService>>
<1>1. \/ RetryStartup \/ QueryPeripheral \/ TryStartL2capListener \/ TryStartGattService
      \/ TryStartAdvertising \/ QueryCentral \/ TryStartScan \/ UNCHANGED startupVars
  BY DEF Next, TaskStep
<1>2. QED BY <1>1 DEF RetryStartup, QueryPeripheral, TryStartL2capListener, TryStartGattService,
              TryStartAdvertising, QueryCentral, TryStartScan, startupVars, task, fixed

(* The last event of a stream says what the power is now.                  *)
LEMMA LastStep ==
    ASSUME TypeOK, LastIsNow, [Next]_startupVars
    PROVE  LastIsNow'
<1>1. SUFFICES ASSUME NEW r \in Role, events'[r] # <<>>
               PROVE  events'[r][Len(events'[r])] = powered'
  BY DEF LastIsNow, Role
<1>2. events[r] # <<>> => events[r][Len(events[r])] = powered
  BY DEF LastIsNow, Role
<1>3. CASE TogglePower
  BY <1>3, ToggleEvents, AppendOccurs DEF Role
<1>4. CASE HandleCentralPower \/ HandlePeripheralPower
  <2>1. powered' = powered
    BY <1>4 DEF HandleCentralPower, HandlePeripheralPower
  <2>2. CASE events'[r] = events[r]
    BY <1>1, <1>2, <2>1, <2>2
  <2>3. CASE events[r] # <<>> /\ events'[r] = Tail(events[r])
    BY <1>1, <1>2, <2>1, <2>3, HandlePending
  <2>4. QED BY <1>4, <2>2, <2>3, HandleStreams DEF Role
<1>5. CASE ~TogglePower /\ ~HandleCentralPower /\ ~HandlePeripheralPower
  BY <1>1, <1>2, <1>5, QuietStep
<1>6. QED BY <1>3, <1>4, <1>5

(* A platform without L2CAP never gives a PSM, and the steps of the        *)
(* peripheral stay in order.                                               *)
LEMMA OrderStep ==
    ASSUME TypeOK, SupportKnown, StepsOrdered, [Next]_startupVars
    PROVE  SupportKnown' /\ StepsOrdered'
<1> USE DEF SupportKnown, StepsOrdered
<1>0. startup \in StartupType
  BY DEF TypeOK, StartupType
<1>1. CASE TogglePower
  BY <1>1 DEF TogglePower, task, fixed, platform
<1>2. CASE HandleCentralPower
  BY <1>0, <1>2 DEF HandleCentralPower, CentralPowerChanged, fixed, platform, StartupType
<1>3. CASE HandlePeripheralPower
  BY <1>0, <1>3 DEF HandlePeripheralPower, PeripheralPowerChanged, StepFor, fixed, platform,
     StartupType
<1>4. CASE RetryStartup
  BY <1>4 DEF RetryStartup, fixed, platform
<1>5. CASE QueryPeripheral
  BY <1>0, <1>5 DEF QueryPeripheral, PeripheralPowerChanged, StepFor, fixed, platform, StartupType
<1>6. CASE TryStartL2capListener
  BY <1>0, <1>6 DEF TryStartL2capListener, fixed, StartupType
<1>7. CASE TryStartGattService
  BY <1>0, <1>7 DEF TryStartGattService, fixed, StartupType
<1>8. CASE TryStartAdvertising
  BY <1>0, <1>8 DEF TryStartAdvertising, fixed, StartupType
<1>9. CASE QueryCentral
  BY <1>0, <1>9 DEF QueryCentral, CentralPowerChanged, fixed, platform, StartupType
<1>10. CASE TryStartScan
  BY <1>0, <1>10 DEF TryStartScan, fixed, StartupType
<1>11. CASE UNCHANGED startupVars
  BY <1>11 DEF startupVars, task, fixed, platform
<1>12. QED
  BY <1>1, <1>2, <1>3, <1>4, <1>5, <1>6, <1>7, <1>8, <1>9, <1>10, <1>11 DEF Next, TaskStep

(* Whatever the task believes started keeps running, or a power loss is    *)
(* pending on the stream that will tell.                                   *)
LEMMA BelievedStep ==
    ASSUME StartupInv, [Next]_startupVars
    PROVE  BelievedRuns'
<1> USE DEF BelievedRuns, L2capRuns, GattRuns, AdvertisingRuns, ScanRuns
<1>0. /\ startup \in StartupType
      /\ TypeOK /\ SupportKnown /\ StepsOrdered /\ BelievedRuns
      /\ "central" \in Role /\ "peripheral" \in Role
  BY DEF StartupInv, TypeOK, StartupType, Role
<1>1. CASE TogglePower
  <2>1. UNCHANGED <<startup, localPsm, restoredService>>
    BY <1>1 DEF TogglePower, task, fixed
  <2>2. CASE powered
    BY <1>0, <1>1, <2>2, TogglePending
  <2>3. CASE ~powered
    <3>1. UNCHANGED <<listener, service, advertised, scanning>>
      BY <1>1, <2>3 DEF TogglePower, platform
    <3>2. QED BY <1>0, <1>1, <2>1, <3>1, TogglePending
  <2>4. QED BY <2>2, <2>3
<1>2. CASE HandleCentralPower
  <2>1. /\ UNCHANGED <<localPsm, restoredService, listener, service, advertised, scanning>>
        /\ startup'.l2cap = startup.l2cap
        /\ startup'.gatt = startup.gatt
        /\ startup'.advertising = startup.advertising
        /\ startup'.scan # "Started"
    BY <1>0, <1>2 DEF HandleCentralPower, CentralPowerChanged, StepFor, fixed, platform, StartupType
  <2>2. OffPending("peripheral")' <=> OffPending("peripheral")
    BY <1>0, <1>2, HandleStreams, PendingUnchanged
  <2>3. QED BY <1>0, <2>1, <2>2
<1>3. CASE HandlePeripheralPower
  <2>1. /\ UNCHANGED scanning
        /\ startup'.l2cap # "Started"
        /\ startup'.gatt # "Started"
        /\ startup'.advertising # "Started"
        /\ startup'.scan = startup.scan
    BY <1>0, <1>3 DEF HandlePeripheralPower, PeripheralPowerChanged, StepFor, platform, StartupType
  <2>2. OffPending("central")' <=> OffPending("central")
    BY <1>0, <1>3, HandleStreams, PendingUnchanged
  <2>3. QED BY <1>0, <2>1, <2>2
<1>4. ASSUME ~TogglePower, ~HandleCentralPower, ~HandlePeripheralPower
      PROVE  /\ OffPending("peripheral")' <=> OffPending("peripheral")
             /\ OffPending("central")' <=> OffPending("central")
             /\ restoredService' = restoredService
  BY <1>0, <1>4, QuietStep, PendingUnchanged
<1>5. CASE /\ ~TogglePower /\ ~HandleCentralPower /\ ~HandlePeripheralPower
           /\ RetryStartup \/ UNCHANGED startupVars
  BY <1>0, <1>4, <1>5 DEF RetryStartup, platform, startupVars, task
<1>6. CASE ~TogglePower /\ ~HandleCentralPower /\ ~HandlePeripheralPower /\ QueryPeripheral
  BY <1>0, <1>4, <1>6 DEF QueryPeripheral, PeripheralPowerChanged, StepFor, platform, StartupType
<1>7. CASE ~TogglePower /\ ~HandleCentralPower /\ ~HandlePeripheralPower /\ TryStartL2capListener
  <2>1. /\ UNCHANGED <<service, advertised, scanning>>
        /\ startup'.gatt = startup.gatt
        /\ startup'.advertising = startup.advertising
        /\ startup'.scan = startup.scan
    BY <1>0, <1>7 DEF TryStartL2capListener, StartupType
  <2>2. L2capRuns'
    BY <1>0, <1>4, <1>7, StartupAssumption DEF TryStartL2capListener, StartupType
  <2>3. listener' = listener \/ startup.gatt # "Started"
    BY <1>0, <1>7 DEF TryStartL2capListener, StepsOrdered
  <2>4. QED BY <1>0, <1>4, <1>7, <2>1, <2>2, <2>3
<1>8. CASE ~TogglePower /\ ~HandleCentralPower /\ ~HandlePeripheralPower /\ TryStartGattService
  <2>1. /\ UNCHANGED <<localPsm, listener, advertised, scanning>>
        /\ startup'.l2cap = startup.l2cap
        /\ startup'.advertising = startup.advertising
        /\ startup'.scan = startup.scan
    BY <1>0, <1>8 DEF TryStartGattService, StartupType
  <2>2. \/ service' = service /\ (startup'.gatt = startup.gatt \/ startup'.gatt # "Started" \/ restoredService)
        \/ /\ service' = Service(localPsm)
           /\ startup.gatt # "WaitingForPower"
           /\ startup.l2cap \notin {"Pending", "Retry"}
    BY <1>0, <1>8 DEF TryStartGattService, StartupType
  <2>3. CASE service' = service /\ (startup'.gatt = startup.gatt \/ startup'.gatt # "Started" \/ restoredService)
    BY <1>0, <1>4, <1>8, <2>1, <2>3
  <2>4. CASE /\ service' = Service(localPsm)
             /\ startup.gatt # "WaitingForPower"
             /\ startup.l2cap \notin {"Pending", "Retry"}
    <3>1. startup.l2cap \in {"Started", "Unsupported"}
      BY <1>0, <2>4 DEF StepsOrdered, StartupType, StartupStep
    <3>2. OffPending("peripheral") \/ localPsm = listener
      BY <1>0, <3>1 DEF SupportKnown
    <3>3. service' # None
      BY <1>0, <2>4, StartupAssumption DEF Service, TypeOK
    <3>4. QED BY <1>0, <1>4, <1>8, <2>1, <2>4, <3>2, <3>3
  <2>5. QED BY <2>2, <2>3, <2>4
<1>9. CASE ~TogglePower /\ ~HandleCentralPower /\ ~HandlePeripheralPower /\ TryStartAdvertising
  <2>1. /\ UNCHANGED <<localPsm, listener, service, scanning>>
        /\ startup'.l2cap = startup.l2cap
        /\ startup'.gatt = startup.gatt
        /\ startup'.scan = startup.scan
    BY <1>0, <1>9 DEF TryStartAdvertising, StartupType
  <2>2. \/ advertised' = advertised /\ (startup' = startup \/ startup'.advertising # "Started")
        \/ advertised' # {} /\ startup.gatt = "Started"
    BY <1>0, <1>9 DEF TryStartAdvertising, StartupType
  <2>3. startup.gatt = "Started" => OffPending("peripheral") \/ restoredService \/ service # None
    BY <1>0, StartupAssumption DEF Service, TypeOK
  <2>4. QED BY <1>0, <1>4, <1>9, <2>1, <2>2, <2>3
<1>10. CASE ~TogglePower /\ ~HandleCentralPower /\ ~HandlePeripheralPower /\ QueryCentral
  BY <1>0, <1>4, <1>10 DEF QueryCentral, CentralPowerChanged, StepFor, platform, StartupType
<1>11. CASE ~TogglePower /\ ~HandleCentralPower /\ ~HandlePeripheralPower /\ TryStartScan
  BY <1>0, <1>4, <1>11 DEF TryStartScan, StartupType
<1>12. QED
  BY <1>1, <1>2, <1>3, <1>5, <1>6, <1>7, <1>8, <1>9, <1>10, <1>11 DEF Next, TaskStep

(* Startup keeps its invariant.                                            *)
THEOREM StartupInvariant == Spec => []StartupInv
<1>1. Init => StartupInv
  <2> SUFFICES ASSUME Init PROVE StartupInv
    OBVIOUS
  <2>1. TypeOK
    BY InitType
  <2>2. LastIsNow
    BY DEF Init, LastIsNow
  <2>3. SupportKnown /\ StepsOrdered /\ BelievedRuns
    BY DEF Init, SupportKnown, StepsOrdered, BelievedRuns, L2capRuns, GattRuns,
           AdvertisingRuns, ScanRuns
  <2>4. QED BY <2>1, <2>2, <2>3 DEF StartupInv
<1>2. StartupInv /\ [Next]_startupVars => StartupInv'
  <2> SUFFICES ASSUME StartupInv, [Next]_startupVars PROVE StartupInv'
    OBVIOUS
  <2>1. TypeOK' /\ LastIsNow' /\ SupportKnown' /\ StepsOrdered'
    BY TypeStep, LastStep, OrderStep DEF StartupInv
  <2>2. QED BY <2>1, BelievedStep DEF StartupInv
<1>3. QED BY <1>1, <1>2, PTL DEF Spec

(* Wherever between the awaits of try_startup power is lost or regained,   *)
(* and whichever calls fail, what the task believes started is running     *)
(* once it has seen every power change, and the service a central reads    *)
(* shows the listener that is open.                                        *)
THEOREM StartedRuns == Spec => []StartedIsRunning
<1>1. StartupInv => StartedIsRunning
  <2> SUFFICES ASSUME StartupInv, AtRest PROVE StartedIsRunning
    BY DEF StartedIsRunning
  <2>1. ~OffPending("peripheral") /\ ~OffPending("central")
    BY EmptyOccurs DEF AtRest, OffPending
  <2>2. QED BY <2>1 DEF StartupInv, BelievedRuns, L2capRuns, GattRuns, AdvertisingRuns, ScanRuns,
               StartedIsRunning
<1>2. QED BY <1>1, StartupInvariant, PTL

-----------------------------------------------------------------------------
(* Waiting for power *)

(* Handling a power event keeps the opposite news pending, if the event is *)
(* not news about the present.                                             *)
LEMMA StaleEvent ==
    ASSUME TypeOK, LastIsNow, NEW r \in Role, events[r] # <<>>, events'[r] = Tail(events[r])
    PROVE  /\ Head(events[r]) /\ ~powered => OffPending(r)'
           /\ ~Head(events[r]) /\ powered => OnPending(r)'
<1>1. Occurs(events[r], powered)
  BY HandlePending DEF LastIsNow, Role
<1>2. powered \in BOOLEAN
  BY DEF TypeOK
<1>3. (powered => OnPending(r)) /\ (~powered => OffPending(r))
  BY <1>1, <1>2 DEF OnPending, OffPending
<1>4. QED BY <1>3, HandlePending

(* A power event that says off makes its steps wait, one that says on      *)
(* makes them start again.                                                 *)
LEMMA PowerChangedSteps ==
    ASSUME NEW st \in StartupType, NEW on
    PROVE  /\ CentralPowerChanged(st, on).scan = StepFor(on)
           /\ \A k \in {"l2cap", "gatt", "advertising"} :
                 CentralPowerChanged(st, on)[k] = st[k]
           /\ PeripheralPowerChanged(st, on).scan = st.scan
           /\ \A k \in {"l2cap", "gatt", "advertising"} :
                 PeripheralPowerChanged(st, on)[k] \in {StepFor(on), "Unsupported"}
  BY DEF CentralPowerChanged, PeripheralPowerChanged, StartupType

(* The steps of try_startup itself never make anything wait, and act only  *)
(* on what does not wait.                                                  *)
LEMMA TriesNeverWait ==
    ASSUME TypeOK,
           \/ TryStartL2capListener \/ TryStartGattService
           \/ TryStartAdvertising \/ TryStartScan
    PROVE  \A k \in {"l2cap", "gatt", "advertising", "scan"} :
              startup'[k] = "WaitingForPower" <=> startup[k] = "WaitingForPower"
<1>0. startup \in StartupType
  BY DEF TypeOK, StartupType
<1>1. CASE TryStartL2capListener
  BY <1>0, <1>1 DEF TryStartL2capListener, StartupType
<1>2. CASE TryStartGattService
  BY <1>0, <1>2 DEF TryStartGattService, StartupType
<1>3. CASE TryStartAdvertising
  BY <1>0, <1>3 DEF TryStartAdvertising, StartupType
<1>4. CASE TryStartScan
  BY <1>0, <1>4 DEF TryStartScan, StartupType
<1>5. QED BY <1>1, <1>2, <1>3, <1>4

(* Without power every step waits, will see the loss, or is about to ask,  *)
(* after every step of the task and every power change.                    *)
LEMMA OffStep ==
    ASSUME StartupInv, OffIsWaiting, [Next]_startupVars
    PROVE  OffIsWaiting'
<1>0. /\ startup \in StartupType
      /\ TypeOK /\ LastIsNow
      /\ "central" \in Role /\ "peripheral" \in Role
  BY DEF StartupInv, TypeOK, StartupType, Role
<1>1. CASE TogglePower
  <2>1. powered => OffPending("central")' /\ OffPending("peripheral")'
    BY <1>0, <1>1, TogglePending
  <2>2. ~powered => powered'
    BY <1>1 DEF TogglePower
  <2>3. QED BY <2>1, <2>2 DEF OffIsWaiting
<1>2. CASE HandleCentralPower
  <2>1. PICK on : /\ on = Head(events.central)
                  /\ startup' = CentralPowerChanged(startup, on)
                  /\ pc = "select"
                  /\ pc' = IF on THEN "peripheral" ELSE "select"
                  /\ powered' = powered
    BY <1>2 DEF HandleCentralPower
  <2>2. OffPending("peripheral")' <=> OffPending("peripheral")
    BY <1>0, <1>2, HandleStreams, PendingUnchanged
  <2>3. ~on => startup'.scan = "WaitingForPower"
    BY <1>0, <2>1, PowerChangedSteps DEF StepFor
  <2>4. \A k \in {"l2cap", "gatt", "advertising"} : startup'[k] = startup[k]
    BY <1>0, <2>1, PowerChangedSteps
  <2>5. QED BY <2>1, <2>2, <2>3, <2>4 DEF OffIsWaiting
<1>3. CASE HandlePeripheralPower
  <2>1. PICK on : /\ on = Head(events.peripheral)
                  /\ startup' = PeripheralPowerChanged(startup, on)
                  /\ pc = "select"
                  /\ pc' = IF on THEN "peripheral" ELSE "select"
                  /\ powered' = powered
    BY <1>3 DEF HandlePeripheralPower
  <2>2. OffPending("central")' <=> OffPending("central")
    BY <1>0, <1>3, HandleStreams, PendingUnchanged
  <2>3. ~on => \A k \in {"l2cap", "gatt", "advertising"} :
                   startup'[k] \in {"WaitingForPower", "Unsupported"}
    BY <1>0, <2>1, PowerChangedSteps DEF StepFor
  <2>4. startup'.scan = startup.scan
    BY <1>0, <2>1, PowerChangedSteps
  <2>5. QED BY <2>1, <2>2, <2>3, <2>4 DEF OffIsWaiting
<1>4. ASSUME ~TogglePower, ~HandleCentralPower, ~HandlePeripheralPower
      PROVE  /\ OffPending("peripheral")' <=> OffPending("peripheral")
             /\ OffPending("central")' <=> OffPending("central")
             /\ powered' = powered
  BY <1>0, <1>4, QuietStep, PendingUnchanged
<1>5. CASE /\ ~TogglePower /\ ~HandleCentralPower /\ ~HandlePeripheralPower
           /\ RetryStartup \/ UNCHANGED startupVars
  BY <1>4, <1>5 DEF RetryStartup, startupVars, task, OffIsWaiting
<1>6. CASE ~TogglePower /\ ~HandleCentralPower /\ ~HandlePeripheralPower /\ QueryPeripheral
  <2>1. CASE powered
    BY <1>4, <1>6, <2>1 DEF OffIsWaiting
  <2>2. CASE ~powered
    <3>1. startup' = PeripheralPowerChanged(startup, FALSE) /\ pc' = "central"
      BY <1>6, <2>2 DEF QueryPeripheral, CallSucceeds
    <3>2. \A k \in {"l2cap", "gatt", "advertising"} :
              startup'[k] \in {"WaitingForPower", "Unsupported"}
      BY <1>0, <3>1, PowerChangedSteps DEF StepFor
    <3>3. QED BY <3>1, <3>2 DEF OffIsWaiting
  <2>3. QED BY <2>1, <2>2
<1>7. CASE ~TogglePower /\ ~HandleCentralPower /\ ~HandlePeripheralPower /\ QueryCentral
  <2>1. CASE powered
    BY <1>4, <1>7, <2>1 DEF OffIsWaiting
  <2>2. CASE ~powered
    <3>1. startup' = CentralPowerChanged(startup, FALSE) /\ pc = "central"
      BY <1>7, <2>2 DEF QueryCentral, CallSucceeds
    <3>2. /\ startup'.scan = "WaitingForPower"
          /\ \A k \in {"l2cap", "gatt", "advertising"} : startup'[k] = startup[k]
      <4>1. StepFor(FALSE) = "WaitingForPower"
        BY DEF StepFor
      <4>2. startup'.scan = StepFor(FALSE)
        BY <1>0, <3>1, PowerChangedSteps
      <4>3. \A k \in {"l2cap", "gatt", "advertising"} : startup'[k] = startup[k]
        BY <1>0, <3>1 DEF CentralPowerChanged, StartupType
      <4>4. QED BY <4>1, <4>2, <4>3
    <3>3. QED BY <1>4, <1>7, <2>2, <3>1, <3>2 DEF OffIsWaiting
  <2>3. QED BY <2>1, <2>2
<1>8. CASE /\ ~TogglePower /\ ~HandleCentralPower /\ ~HandlePeripheralPower
           /\ \/ TryStartL2capListener \/ TryStartGattService
              \/ TryStartAdvertising \/ TryStartScan
  <2>1. /\ pc \in {"l2cap", "gatt", "advertising", "scan"}
        /\ pc' \in {"gatt", "advertising", "central", "select"}
        /\ pc # "scan" => pc' # "select"
    BY <1>8 DEF TryStartL2capListener, TryStartGattService, TryStartAdvertising, TryStartScan
  <2>2. \A k \in {"l2cap", "gatt", "advertising", "scan"} :
            startup'[k] = "WaitingForPower" <=> startup[k] = "WaitingForPower"
    BY <1>0, <1>8, TriesNeverWait
  <2>3. \A k \in {"l2cap", "gatt", "advertising"} :
            startup[k] = "Unsupported" => startup'[k] = "Unsupported"
    BY <1>0, <1>8 DEF TryStartL2capListener, TryStartGattService, TryStartAdvertising, TryStartScan,
       StartupType, StartupStep
  <2>4. QED BY <1>4, <1>8, <2>1, <2>2, <2>3 DEF OffIsWaiting
<1>9. QED BY <1>1, <1>2, <1>3, <1>5, <1>6, <1>7, <1>8 DEF Next, TaskStep

(* When a query never fails, a step waits only without power or with the   *)
(* news of it pending, after every step of the task and every power change. *)
LEMMA OnStep ==
    ASSUME ~QueryMayFail, StartupInv, WaitingIsOff, [Next]_startupVars
    PROVE  WaitingIsOff'
<1>0. /\ startup \in StartupType
      /\ TypeOK /\ LastIsNow
      /\ "central" \in Role /\ "peripheral" \in Role
  BY DEF StartupInv, TypeOK, StartupType, Role
<1>1. CASE TogglePower
  <2>1. ~powered => OnPending("central")' /\ OnPending("peripheral")'
    BY <1>0, <1>1, TogglePending
  <2>2. powered => ~powered'
    BY <1>1 DEF TogglePower
  <2>3. QED BY <2>1, <2>2 DEF WaitingIsOff
<1>2. CASE HandleCentralPower
  <2>1. PICK on : /\ on = Head(events.central)
                  /\ startup' = CentralPowerChanged(startup, on)
                  /\ powered' = powered
    BY <1>2 DEF HandleCentralPower
  <2>2. OnPending("peripheral")' <=> OnPending("peripheral")
    BY <1>0, <1>2, HandleStreams, PendingUnchanged
  <2>3. on => startup'.scan # "WaitingForPower"
    BY <1>0, <2>1, PowerChangedSteps DEF StepFor
  <2>4. \A k \in {"l2cap", "gatt", "advertising"} : startup'[k] = startup[k]
    BY <1>0, <2>1, PowerChangedSteps
  <2>5. ~on => ~powered \/ OnPending("central")'
    BY <1>0, <1>2, <2>1, HandleStreams, StaleEvent
  <2>6. QED BY <2>1, <2>2, <2>3, <2>4, <2>5 DEF WaitingIsOff
<1>3. CASE HandlePeripheralPower
  <2>1. PICK on : /\ on = Head(events.peripheral)
                  /\ startup' = PeripheralPowerChanged(startup, on)
                  /\ powered' = powered
    BY <1>3 DEF HandlePeripheralPower
  <2>2. OnPending("central")' <=> OnPending("central")
    BY <1>0, <1>3, HandleStreams, PendingUnchanged
  <2>3. on => \A k \in {"l2cap", "gatt", "advertising"} : startup'[k] # "WaitingForPower"
    BY <1>0, <2>1, PowerChangedSteps DEF StepFor
  <2>4. startup'.scan = startup.scan
    BY <1>0, <2>1, PowerChangedSteps
  <2>5. ~on => ~powered \/ OnPending("peripheral")'
    BY <1>0, <1>3, <2>1, HandleStreams, StaleEvent
  <2>6. QED BY <2>1, <2>2, <2>3, <2>4, <2>5 DEF WaitingIsOff
<1>4. ASSUME ~TogglePower, ~HandleCentralPower, ~HandlePeripheralPower
      PROVE  /\ OnPending("peripheral")' <=> OnPending("peripheral")
             /\ OnPending("central")' <=> OnPending("central")
             /\ powered' = powered
  BY <1>0, <1>4, QuietStep, PendingUnchanged
<1>5. CASE /\ ~TogglePower /\ ~HandleCentralPower /\ ~HandlePeripheralPower
           /\ RetryStartup \/ UNCHANGED startupVars
  BY <1>4, <1>5 DEF RetryStartup, startupVars, task, WaitingIsOff
<1>6. CASE /\ ~TogglePower /\ ~HandleCentralPower /\ ~HandlePeripheralPower
           /\ QueryPeripheral \/ QueryCentral
  <2>1. startup' = startup \/ ~powered
    BY <1>6 DEF QueryPeripheral, QueryCentral, QueryAnswersOff
  <2>2. QED BY <1>4, <1>6, <2>1 DEF WaitingIsOff
<1>7. CASE /\ ~TogglePower /\ ~HandleCentralPower /\ ~HandlePeripheralPower
           /\ \/ TryStartL2capListener \/ TryStartGattService
              \/ TryStartAdvertising \/ TryStartScan
  <2>1. \A k \in {"l2cap", "gatt", "advertising", "scan"} :
            startup'[k] = "WaitingForPower" <=> startup[k] = "WaitingForPower"
    BY <1>0, <1>7, TriesNeverWait
  <2>2. QED BY <1>4, <1>7, <2>1 DEF WaitingIsOff
<1>8. QED BY <1>1, <1>2, <1>3, <1>5, <1>6, <1>7 DEF Next, TaskStep

(* Once it has seen every power change the task leaves a dead adapter      *)
(* alone: every step it could retry waits, even when a query of the power  *)
(* may fail.                                                               *)
DeadAdapterLeftAlone ==
    AtRest /\ ~powered =>
        \A k \in DOMAIN startup : startup[k] \in {"WaitingForPower", "Unsupported"}

(* The adapter's power is off: the task retries nothing and waits.         *)
THEOREM OffMeansWaiting == Spec => []DeadAdapterLeftAlone
<1>1. Init => OffIsWaiting
  BY DEF Init, OffIsWaiting
<1>2. StartupInv /\ OffIsWaiting /\ [Next]_startupVars => OffIsWaiting'
  BY OffStep
<1>3. StartupInv /\ OffIsWaiting => DeadAdapterLeftAlone
  <2> SUFFICES ASSUME StartupInv, OffIsWaiting, AtRest, ~powered
               PROVE  \A k \in DOMAIN startup : startup[k] \in {"WaitingForPower", "Unsupported"}
    BY DEF DeadAdapterLeftAlone
  <2>1. ~OffPending("peripheral") /\ ~OffPending("central") /\ pc = "select"
    BY EmptyOccurs DEF AtRest, OffPending
  <2>2. DOMAIN startup = {"l2cap", "gatt", "advertising", "scan"}
    BY DEF StartupInv, TypeOK
  <2>3. QED BY <2>1, <2>2 DEF OffIsWaiting
<1>4. QED BY <1>1, <1>2, <1>3, StartupInvariant, PTL DEF Spec

(* If the platform always answers when asked for its power, the task       *)
(* waits for power exactly when there is none, once it has seen every      *)
(* power change: no loss between two awaits of try_startup goes unnoticed, *)
(* and no step waits for an event that has already come.                   *)
THEOREM WaitsExactly ==
    ASSUME ~QueryMayFail
    PROVE  Spec => []WaitsExactlyWhenOff
<1>1. Init => WaitingIsOff
  BY DEF Init, WaitingIsOff
<1>2. StartupInv /\ WaitingIsOff /\ [Next]_startupVars => WaitingIsOff'
  BY OnStep
<1>3. StartupInv /\ DeadAdapterLeftAlone /\ WaitingIsOff => WaitsExactlyWhenOff
  <2> SUFFICES ASSUME StartupInv, DeadAdapterLeftAlone, WaitingIsOff, AtRest,
                      NEW k \in DOMAIN startup, startup[k] # "Unsupported"
               PROVE  startup[k] = "WaitingForPower" <=> ~powered
    BY DEF WaitsExactlyWhenOff
  <2>1. ~OnPending("peripheral") /\ ~OnPending("central")
    BY EmptyOccurs DEF AtRest, OnPending
  <2>2. DOMAIN startup = {"l2cap", "gatt", "advertising", "scan"}
    BY DEF StartupInv, TypeOK
  <2>3. ~powered => startup[k] = "WaitingForPower"
    BY DEF DeadAdapterLeftAlone
  <2>4. startup[k] = "WaitingForPower" => ~powered
    BY <2>1, <2>2 DEF WaitingIsOff
  <2>5. QED BY <2>3, <2>4
<1>4. QED BY <1>1, <1>2, <1>3, StartupInvariant, OffMeansWaiting, PTL DEF Spec

-----------------------------------------------------------------------------
(* Nothing is left out *)

(* A task that has seen every power change, has power and has no retry due *)
(* has brought everything up: there is no combination of skipped steps,    *)
(* transient errors and power changes after which it comes to rest with    *)
(* something still to start.                                               *)
RestMeansUp == AtRest /\ powered /\ ~RetryDue(startup) => AllUp

(* A step is left pending only in front of the await that starts it, or    *)
(* behind a step that will be retried.                                     *)
PendingCovered ==
    /\ startup.gatt = "WaitingForPower" => startup.advertising = "WaitingForPower"
    /\ pc \in {"gatt", "advertising", "central", "scan", "select"} => startup.l2cap # "Pending"
    /\ pc \in {"advertising", "central", "scan", "select"} =>
          (startup.gatt = "Pending" => startup.l2cap = "Retry")
    /\ pc \in {"central", "scan", "select"} =>
          (startup.advertising = "Pending" => "Retry" \in {startup.l2cap, startup.gatt})
    /\ pc = "select" => startup.scan # "Pending"

(* Every await leaves its step started, to be retried, or behind one that  *)
(* is, and every power event leaves no step pending without a new pass.    *)
LEMMA PendingStep ==
    ASSUME TypeOK, PendingCovered, [Next]_startupVars
    PROVE  PendingCovered'
<1>0. startup \in StartupType
  BY DEF TypeOK, StartupType
<1>1. CASE TogglePower \/ UNCHANGED startupVars
  <2>1. UNCHANGED <<startup, pc>>
    BY <1>1 DEF TogglePower, startupVars, task
  <2>2. QED BY <2>1 DEF PendingCovered
<1>2. ASSUME NEW on, startup' = PeripheralPowerChanged(startup, on)
      PROVE  /\ startup'.gatt = StepFor(on) /\ startup'.advertising = StepFor(on)
             /\ startup'.l2cap \in {StepFor(on), "Unsupported"}
             /\ startup'.scan = startup.scan
  BY <1>0, <1>2, PowerChangedSteps, PowerChangedType DEF StartupType
<1>3. ASSUME NEW on, startup' = CentralPowerChanged(startup, on)
      PROVE  /\ startup'.l2cap = startup.l2cap /\ startup'.gatt = startup.gatt
             /\ startup'.advertising = startup.advertising /\ startup'.scan = StepFor(on)
  BY <1>0, <1>3, PowerChangedSteps
<1>4. CASE HandleCentralPower
  <2>1. PICK on : /\ on = Head(events.central)
                  /\ startup' = CentralPowerChanged(startup, on)
                  /\ pc = "select"
                  /\ pc' = IF on THEN "peripheral" ELSE "select"
                  /\ powered' = powered
    BY <1>4 DEF HandleCentralPower
  <2>2. /\ startup'.l2cap = startup.l2cap /\ startup'.gatt = startup.gatt
        /\ startup'.advertising = startup.advertising /\ startup'.scan = StepFor(on)
    BY <1>3, <2>1
  <2>3. QED BY <2>1, <2>2 DEF PendingCovered, StepFor
<1>5. CASE HandlePeripheralPower
  <2>1. PICK on : /\ on = Head(events.peripheral)
                  /\ startup' = PeripheralPowerChanged(startup, on)
                  /\ pc = "select"
                  /\ pc' = IF on THEN "peripheral" ELSE "select"
                  /\ powered' = powered
    BY <1>5 DEF HandlePeripheralPower
  <2>2. /\ startup'.gatt = StepFor(on) /\ startup'.advertising = StepFor(on)
        /\ startup'.l2cap \in {StepFor(on), "Unsupported"} /\ startup'.scan = startup.scan
    BY <1>2, <2>1
  <2>3. QED BY <2>1, <2>2 DEF PendingCovered, StepFor
<1>6. CASE RetryStartup
  BY <1>6 DEF RetryStartup, PendingCovered
<1>7. CASE QueryPeripheral
  <2>1. CASE pc' = "l2cap" /\ UNCHANGED startup
    BY <2>1 DEF PendingCovered
  <2>2. CASE startup' = PeripheralPowerChanged(startup, FALSE) /\ pc' = "central"
    <3>1. /\ startup'.gatt = StepFor(FALSE) /\ startup'.advertising = StepFor(FALSE)
          /\ startup'.l2cap \in {StepFor(FALSE), "Unsupported"}
      BY <1>2, <2>2
    <3>2. QED BY <2>2, <3>1 DEF PendingCovered, StepFor
  <2>3. QED BY <1>7, <2>1, <2>2 DEF QueryPeripheral
<1>8. CASE QueryCentral
  <2>1. CASE pc = "central" /\ pc' = "scan" /\ UNCHANGED startup
    BY <2>1 DEF PendingCovered
  <2>2. CASE /\ pc = "central" /\ pc' = "select"
             /\ startup' = CentralPowerChanged(startup, FALSE)
    <3>1. /\ startup'.l2cap = startup.l2cap /\ startup'.gatt = startup.gatt
          /\ startup'.advertising = startup.advertising /\ startup'.scan = StepFor(FALSE)
      BY <1>3, <2>2
    <3>2. QED BY <2>2, <3>1 DEF PendingCovered, StepFor
  <2>3. QED BY <1>8, <2>1, <2>2 DEF QueryCentral
<1>9. CASE TryStartL2capListener
  <2>1. /\ pc' = "gatt" /\ startup'.l2cap # "Pending"
        /\ startup'.gatt = startup.gatt /\ startup'.advertising = startup.advertising
    BY <1>0, <1>9 DEF TryStartL2capListener, StartupType
  <2>2. QED BY <2>1 DEF PendingCovered
<1>10. CASE TryStartGattService
  <2>1. /\ pc = "gatt" /\ pc' = "advertising" /\ startup'.l2cap = startup.l2cap
        /\ startup'.advertising = startup.advertising
    BY <1>0, <1>10 DEF TryStartGattService, StartupType
  <2>2. \/ startup'.gatt \in {"Started", "Retry"}
        \/ startup'.gatt = startup.gatt /\ startup.gatt = "WaitingForPower"
        \/ startup'.gatt = startup.gatt /\ startup.l2cap \in {"Pending", "Retry"}
    BY <1>0, <1>10 DEF TryStartGattService, StartupType
  <2>3. QED BY <2>1, <2>2 DEF PendingCovered
<1>11. CASE TryStartAdvertising
  <2>1. /\ pc = "advertising" /\ pc' = "central" /\ startup'.l2cap = startup.l2cap
        /\ startup'.gatt = startup.gatt
    BY <1>0, <1>11 DEF TryStartAdvertising, StartupType
  <2>2. \/ /\ startup'.advertising \in {"Started", "Retry"}
           /\ startup.gatt = "Started"
        \/ /\ startup'.advertising = startup.advertising
           /\ startup.advertising \in {"Started", "WaitingForPower"} \/ startup.gatt # "Started"
    BY <1>0, <1>11 DEF TryStartAdvertising, StartupType
  <2>3. startup.gatt \in {"Pending", "WaitingForPower", "Retry", "Started"}
    BY <1>0 DEF StartupType, StartupStep
  <2>4. QED BY <2>1, <2>2, <2>3 DEF PendingCovered
<1>12. CASE TryStartScan
  <2>1. /\ pc = "scan" /\ pc' = "select" /\ startup'.scan # "Pending"
        /\ startup'.l2cap = startup.l2cap /\ startup'.gatt = startup.gatt
        /\ startup'.advertising = startup.advertising
    BY <1>0, <1>12 DEF TryStartScan, StartupType
  <2>2. QED BY <2>1 DEF PendingCovered
<1>13. QED
  BY <1>1, <1>4, <1>5, <1>6, <1>7, <1>8, <1>9, <1>10, <1>11, <1>12 DEF Next, TaskStep

(* If the platform always answers when asked for its power, try_startup    *)
(* and its retries are complete: with power the task never comes to rest   *)
(* before it scans, advertises and serves.                                 *)
THEOREM NothingLeftOut ==
    ASSUME ~QueryMayFail
    PROVE  Spec => []RestMeansUp
<1>1. Init => PendingCovered
  BY DEF Init, PendingCovered
<1>2. StartupInv /\ PendingCovered /\ [Next]_startupVars => PendingCovered'
  BY PendingStep DEF StartupInv
<1>3. StartupInv /\ PendingCovered /\ StartedIsRunning /\ WaitsExactlyWhenOff => RestMeansUp
  <2> SUFFICES ASSUME StartupInv, PendingCovered, StartedIsRunning, WaitsExactlyWhenOff,
                      AtRest, powered, ~RetryDue(startup)
               PROVE  AllUp
    BY DEF RestMeansUp
  <2>1. DOMAIN startup = {"l2cap", "gatt", "advertising", "scan"} /\ startup \in StartupType
    BY DEF StartupInv, TypeOK, StartupType
  <2>2. \A k \in {"l2cap", "gatt", "advertising", "scan"} :
            startup[k] # "Retry" /\ startup[k] # "WaitingForPower"
    BY <2>1 DEF RetryDue, WaitsExactlyWhenOff
  <2>3. /\ startup.l2cap \in {"Started", "Unsupported"} /\ startup.gatt = "Started"
        /\ startup.advertising = "Started" /\ startup.scan = "Started"
    BY <2>1, <2>2 DEF PendingCovered, AtRest, StartupType, StartupStep
  <2>4. QED BY <2>3 DEF AllUp, StartedIsRunning
<1>4. QED BY <1>1, <1>2, <1>3, StartupInvariant, StartedRuns, WaitsExactly, PTL DEF Spec
=============================================================================
