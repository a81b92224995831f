------------------------------ MODULE Startup ------------------------------
(***************************************************************************)
(* Bringing the radio up and keeping it up across adapter power changes    *)
(* (crates/jq-link-profile/src/startup.rs and `try_startup` and its steps  *)
(* in task.rs).                                                            *)
(*                                                                         *)
(* `try_startup` awaits the platform six times; the adapter may lose or    *)
(* regain power at each of them.  A power change reaches the task later,   *)
(* as one event on the central stream and one on the peripheral stream,    *)
(* which the task handles in either order.                                 *)
(***************************************************************************)
EXTENDS Naturals, Sequences

CONSTANTS
    Psm,             \* PSMs the platform hands out
    None,
    QueryMayFail,    \* may `is_powered` answer with an error?
    MaxToggles,      \* bound on the power changes of a behaviour
    MaxFailures      \* bound on the transient platform errors of a behaviour

ASSUME StartupAssumption ==
    /\ None \notin Psm
    /\ \A p \in Psm \cup {None} : None # [psm |-> p]
    /\ Psm # {}
    /\ QueryMayFail \in BOOLEAN
    /\ MaxToggles \in Nat
    /\ MaxFailures \in Nat

StartupStep == {"Pending", "WaitingForPower", "Retry", "Started", "Unsupported"}

VARIABLES
    startup,     \* BleStartupState: a step per thing to start
    localPsm,    \* the PSM of the last listener that opened
    pc,          \* the await of `try_startup` the task is at, or "select"
    powered,     \* external: the adapter has power
    events,      \* external: power events the task has not handled, per role
    listener,    \* external: PSM of the open listener
    service,     \* external: registered GATT service, with the PSM it shows
    advertised,  \* external: service UUIDs on the air
    scanning,    \* external: a scan is running
    l2capSupported,   \* external: the platform has L2CAP channels
    restoredService,  \* the platform restored our GATT service before startup
    toggles,     \* power changes so far
    failures     \* transient errors so far

task == <<startup, localPsm, pc>>
platform == <<listener, service, advertised, scanning>>
fixed == <<l2capSupported, restoredService>>
budget == <<toggles, failures>>
startupVars == <<task, powered, events, platform, fixed, budget>>

(* A registered service shows the PSM it was built with, None without one. *)
Service(psm) == [psm |-> psm]

Init ==
    /\ startup = [l2cap |-> "Pending", gatt |-> "Pending",
                  advertising |-> "Pending", scan |-> "Pending"]
    /\ localPsm = None
    /\ pc = "peripheral"
    /\ powered \in BOOLEAN
    /\ events = [central |-> <<>>, peripheral |-> <<>>]
    /\ listener = None
    /\ l2capSupported \in BOOLEAN
    /\ restoredService \in BOOLEAN
    /\ service \in IF restoredService
                  THEN {Service(p) : p \in IF l2capSupported THEN Psm ELSE {None}}
                  ELSE {None}
    /\ advertised = {}
    /\ scanning = FALSE
    /\ toggles = 0
    /\ failures = 0

-----------------------------------------------------------------------------
(* startup.rs *)

StepFor(on) == IF on THEN "Pending" ELSE "WaitingForPower"

(* Mutation: without power the scan is retried instead of waiting. *)
CentralPowerChanged_Retries(st, on) ==
    [st EXCEPT !.scan = IF on THEN "Pending" ELSE "Retry"]

CentralPowerChanged(st, on) == [st EXCEPT !.scan = StepFor(on)]

(* Mutations: the service is not started again after a power cycle, and    *)
(* every peripheral step follows an unsupported listener.                  *)
PeripheralPowerChanged_KeepsService(st, on) ==
    [st EXCEPT !.l2cap = IF @ = "Unsupported" THEN @ ELSE StepFor(on),
               !.advertising = StepFor(on)]

PeripheralPowerChanged_Spreads(st, on) ==
    LET next == IF st.l2cap = "Unsupported" THEN "Unsupported" ELSE StepFor(on)
    IN  [st EXCEPT !.l2cap = next, !.gatt = next, !.advertising = next]

PeripheralPowerChanged(st, on) ==
    [st EXCEPT !.l2cap = IF @ = "Unsupported" THEN @ ELSE StepFor(on),
               !.gatt = StepFor(on),
               !.advertising = StepFor(on)]

(* Mutation: a failed scan does not arm the timer. *)
RetryDue_WithoutScan(st) ==
    \E k \in DOMAIN st \ {"scan"} : st[k] = "Retry"

RetryDue(st) == \E k \in DOMAIN st : st[k] = "Retry"

-----------------------------------------------------------------------------
(* The platform *)

(* External: power changes.  Losing power ends whatever was running.       *)
TogglePower ==
    /\ toggles < MaxToggles
    /\ toggles' = toggles + 1
    /\ powered' = ~powered
    /\ events' = [r \in DOMAIN events |-> Append(events[r], ~powered)]
    /\ IF powered
       THEN listener' = None /\ service' = None /\ advertised' = {} /\ scanning' = FALSE
       ELSE UNCHANGED platform
    /\ UNCHANGED <<task, fixed, failures>>

(* External: a call fails without power, and sometimes with power.         *)
CallFails ==
    \/ ~powered /\ UNCHANGED failures
    \/ /\ powered
       /\ failures < MaxFailures
       /\ failures' = failures + 1

CallSucceeds == powered /\ UNCHANGED failures

-----------------------------------------------------------------------------
(* Entering try_startup from the select loop *)

HandleCentralPower ==
    /\ pc = "select"
    /\ events.central # <<>>
    /\ LET on == Head(events.central)
       IN  /\ startup' = CentralPowerChanged(startup, on)
           /\ pc' = IF on THEN "peripheral" ELSE "select"
    /\ events' = [events EXCEPT !.central = Tail(@)]
    /\ UNCHANGED <<localPsm, powered, platform, fixed, budget>>

HandlePeripheralPower ==
    /\ pc = "select"
    /\ events.peripheral # <<>>
    /\ LET on == Head(events.peripheral)
       IN  /\ startup' = PeripheralPowerChanged(startup, on)
           /\ pc' = IF on THEN "peripheral" ELSE "select"
    /\ events' = [events EXCEPT !.peripheral = Tail(@)]
    /\ UNCHANGED <<localPsm, powered, platform, fixed, budget>>

RetryStartup ==
    /\ pc = "select"
    /\ RetryDue(startup)
    /\ pc' = "peripheral"
    /\ UNCHANGED <<startup, localPsm, powered, events, platform, fixed, budget>>

-----------------------------------------------------------------------------
(* try_startup *)

(* An error of is_powered counts as "off" (unwrap_or(false)).              *)
QueryAnswersOff == CallFails /\ (powered => QueryMayFail)

QueryPeripheral ==
    /\ pc = "peripheral"
    /\ \/ CallSucceeds /\ pc' = "l2cap" /\ UNCHANGED startup
       \/ /\ QueryAnswersOff
          /\ startup' = PeripheralPowerChanged(startup, FALSE)
          /\ pc' = "central"
    /\ UNCHANGED <<localPsm, powered, events, platform, fixed, toggles>>

TryStartL2capListener ==
    /\ pc = "l2cap"
    /\ pc' = "gatt"
    /\ \/ /\ startup.l2cap \in {"Started", "Unsupported", "WaitingForPower"}
          /\ UNCHANGED <<startup, localPsm, listener, failures>>
       \/ /\ startup.l2cap \in {"Pending", "Retry"}
          /\ l2capSupported
          /\ CallSucceeds
          /\ \E p \in Psm : localPsm' = p /\ listener' = p
          /\ startup' = [startup EXCEPT !.l2cap = "Started"]
       \/ /\ startup.l2cap \in {"Pending", "Retry"}
          /\ ~l2capSupported
          /\ startup' = [startup EXCEPT !.l2cap = "Unsupported"]
          /\ UNCHANGED <<localPsm, listener, failures>>
       \/ /\ startup.l2cap \in {"Pending", "Retry"}
          /\ l2capSupported
          /\ CallFails
          /\ startup' = [startup EXCEPT !.l2cap = "Retry"]
          /\ UNCHANGED <<localPsm, listener>>
    /\ UNCHANGED <<powered, events, service, advertised, scanning, fixed, toggles>>

(* The restored list is consulted by UUID, which is the same for every     *)
(* service the runtime registers.                                          *)
TryStartGattService ==
    /\ pc = "gatt"
    /\ pc' = "advertising"
    /\ \/ /\ \/ startup.gatt \in {"Started", "WaitingForPower"}
             \/ startup.l2cap \in {"Pending", "Retry"}
          /\ UNCHANGED <<startup, service, failures>>
       \/ /\ startup.gatt \notin {"Started", "WaitingForPower"}
          /\ startup.l2cap \notin {"Pending", "Retry"}
          /\ \/ /\ restoredService
                /\ startup' = [startup EXCEPT !.gatt = "Started"]
                /\ UNCHANGED <<service, failures>>
             \/ /\ ~restoredService
                /\ CallSucceeds
                /\ service' = Service(localPsm)
                /\ startup' = [startup EXCEPT !.gatt = "Started"]
             \/ /\ ~restoredService
                /\ CallFails
                /\ startup' = [startup EXCEPT !.gatt = "Retry"]
                /\ UNCHANGED service
    /\ UNCHANGED <<localPsm, powered, events, listener, advertised, scanning, fixed, toggles>>

(* The one UUID that is advertised.                                        *)
IdentityServiceUuid == "identity"

TryStartAdvertising ==
    /\ pc = "advertising"
    /\ pc' = "central"
    /\ \/ /\ \/ startup.advertising \in {"Started", "WaitingForPower"}
             \/ startup.gatt # "Started"
          /\ UNCHANGED <<startup, advertised, failures>>
       \/ /\ startup.advertising \notin {"Started", "WaitingForPower"}
          /\ startup.gatt = "Started"
          /\ \/ /\ CallSucceeds
                /\ advertised' = {IdentityServiceUuid}
                /\ startup' = [startup EXCEPT !.advertising = "Started"]
             \/ /\ CallFails
                /\ startup' = [startup EXCEPT !.advertising = "Retry"]
                /\ UNCHANGED advertised
    /\ UNCHANGED <<localPsm, powered, events, listener, service, scanning, fixed, toggles>>

QueryCentral ==
    /\ pc = "central"
    /\ \/ CallSucceeds /\ pc' = "scan" /\ UNCHANGED startup
       \/ /\ QueryAnswersOff
          /\ startup' = CentralPowerChanged(startup, FALSE)
          /\ pc' = "select"
    /\ UNCHANGED <<localPsm, powered, events, platform, fixed, toggles>>

TryStartScan ==
    /\ pc = "scan"
    /\ pc' = "select"
    /\ \/ /\ startup.scan \in {"Started", "WaitingForPower"}
          /\ UNCHANGED <<startup, scanning, failures>>
       \/ /\ startup.scan \notin {"Started", "WaitingForPower"}
          /\ \/ /\ CallSucceeds
                /\ scanning' = TRUE
                /\ startup' = [startup EXCEPT !.scan = "Started"]
             \/ /\ CallFails
                /\ startup' = [startup EXCEPT !.scan = "Retry"]
                /\ UNCHANGED scanning
    /\ UNCHANGED <<localPsm, powered, events, listener, service, advertised, fixed, toggles>>

TaskStep ==
    \/ HandleCentralPower
    \/ HandlePeripheralPower
    \/ RetryStartup
    \/ QueryPeripheral
    \/ TryStartL2capListener
    \/ TryStartGattService
    \/ TryStartAdvertising
    \/ QueryCentral
    \/ TryStartScan

Next == TogglePower \/ TaskStep

(* The task is polled whenever it has something to do.                     *)
Spec == Init /\ [][Next]_startupVars /\ WF_startupVars(TaskStep)

-----------------------------------------------------------------------------
(* Properties *)

(* Every step, event and platform resource stays in its range; only the    *)
(* L2CAP listener can be unsupported.                                      *)
TypeOK ==
    /\ startup \in [l2cap : StartupStep, gatt : StartupStep \ {"Unsupported"},
                    advertising : StartupStep \ {"Unsupported"},
                    scan : StartupStep \ {"Unsupported"}]
    /\ localPsm \in Psm \cup {None}
    /\ pc \in {"select", "peripheral", "l2cap", "gatt", "advertising", "central", "scan"}
    /\ powered \in BOOLEAN
    /\ events \in [central : Seq(BOOLEAN), peripheral : Seq(BOOLEAN)]
    /\ listener \in Psm \cup {None}
    /\ service \in {Service(p) : p \in Psm \cup {None}} \cup {None}
    /\ advertised \in SUBSET {IdentityServiceUuid}
    /\ scanning \in BOOLEAN
    /\ {l2capSupported, restoredService} \subseteq BOOLEAN
    /\ toggles \in 0 .. MaxToggles
    /\ failures \in 0 .. MaxFailures

(* The task is in its select loop and has handled every power event.       *)
AtRest ==
    /\ pc = "select"
    /\ events.central = <<>>
    /\ events.peripheral = <<>>

(* What the task believes started is really running on the platform once   *)
(* it has seen every power change.  Unless the platform restored an old    *)
(* service, a central that reads the PSM finds the listener that is open.  *)
StartedIsRunning ==
    AtRest =>
        /\ startup.l2cap = "Started" => listener # None /\ listener = localPsm
        /\ startup.gatt = "Started" /\ ~restoredService => service = Service(listener)
        /\ startup.advertising = "Started" =>
              advertised # {} /\ (restoredService \/ service # None)
        /\ startup.scan = "Started" => scanning

(* Once it has seen every power change, the task waits for power exactly   *)
(* when there is none: it does not retry against a dead adapter, and does  *)
(* not wait for an event that has already come.                            *)
WaitsExactlyWhenOff ==
    AtRest => \A k \in DOMAIN startup :
        startup[k] # "Unsupported" => (startup[k] = "WaitingForPower" <=> ~powered)

(* Everything the platform supports is running. *)
AllUp ==
    /\ startup.l2cap \in {"Started", "Unsupported"}
    /\ startup.gatt = "Started" /\ (restoredService \/ service = Service(listener))
    /\ startup.advertising = "Started" /\ advertised # {}
    /\ startup.scan = "Started" /\ scanning

(* However power changes and transient errors fall between the awaits of   *)
(* try_startup, an adapter that stays on ends up scanning, advertising and *)
(* serving.                                                                *)
EventuallyUp == <>[](powered => AllUp)
=============================================================================
