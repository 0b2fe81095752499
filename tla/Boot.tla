-------------------------------- MODULE Boot --------------------------------
(***************************************************************************)
(* main() (main/src/main.cpp) with the threads it starts: the app thread,  *)
(* which runs from AppTask::StartApp on and may ask for a factory reset at *)
(* once, and the CHIP event loop, which main starts near its end and then  *)
(* races, without the stack lock, for its last calls.  Each call of main   *)
(* that can fail does, with the early return or the log line of the code,  *)
(* or with nothing where the code ignores the result: the platform may     *)
(* refuse an event handler (AddEventHandler), and main goes on without it. *)
(*                                                                         *)
(* The factory reset is the two steps the other threads can see: the wipe, *)
(* which shuts the server down (module MatterWipe has its steps), and the  *)
(* reset of the MCU 150 ms later.                                          *)
(***************************************************************************)
EXTENDS Naturals, Sequences

CONSTANT MaxBoots  \* bound: how often the device boots

\* Stored settings, the BLE name, the TimeSynchronization delegate, the other
\* attribute overrides, the group data provider, the ACL entry listener, the Wi-Fi
\* commissioning cluster and the soil sensor.
Parts == {"settings", "name", "timeSync", "overrides", "groups", "listener", "wifi", "soil"}

ASSUME BootAssumption == MaxBoots \in Nat \ {0}

VARIABLES
    pc,           \* the call main is at; "returned" or "died" when it stopped early
    handlers,     \* the event handlers that are registered: "reset" is the one of the
                  \* factory reset, "app" AppTask's (ble_manager's, which only logs, is left out)
    appRunning,   \* the app thread exists
    requested,    \* ScheduleFactoryReset has posted its work to the event loop
    server,       \* Server: "none", "up" or "down"
    ready,        \* what main has set up of Parts
    window,       \* the commissioning window: "closed", "open", "expired" after its 15
                  \* minutes, or "failed" when it could not be opened (logged only)
    loop,         \* the event loop thread runs
    loopFailed,   \* StartEventLoopTask failed (logged only)
    advertising,  \* EnableAdvertising was called
    wiped,        \* the event loop has run DoFullMatterWipe and sleeps 150 ms
    left,         \* history: the last fabric was removed in this boot
    fabrics,      \* persistent: the device has a fabric
    boots

ram  == <<handlers, appRunning, requested, server, ready, window, loop,
          loopFailed, advertising, wiped, left>>
vars == <<pc, ram, fabrics, boots>>

\* Mutated form: the event loop is started before the soil sensor is set up.
CallsLoopFirst == <<"InitSettings", "InitChipStack", "AddEventHandlers", "StartApp",
           "LoadSettings", "DeviceName", "InitStatic", "ServerInit", "TimeSync", "Overrides",
           "ManagementClusters", "AccessControl", "FabricHandlers", "OpenWindow", "WifiCluster",
           "StartEventLoop", "SoilSensor", "StorageDelegate", "EnableAdvertising", "Idle">>

\* main's calls, in order.
Calls == <<"InitSettings", "InitChipStack", "AddEventHandlers", "StartApp", "LoadSettings",
           "DeviceName", "InitStatic", "ServerInit", "TimeSync", "Overrides",
           "ManagementClusters", "AccessControl", "FabricHandlers", "OpenWindow", "WifiCluster",
           "SoilSensor", "StartEventLoop", "StorageDelegate", "EnableAdvertising", "Idle">>

Reset ==
    /\ handlers' = {} /\ appRunning' = FALSE /\ requested' = FALSE
    /\ server' = "none" /\ ready' = {} /\ window' = "closed"
    /\ loop' = FALSE /\ loopFailed' = FALSE /\ advertising' = FALSE /\ wiped' = FALSE
    /\ left' = FALSE

Init ==
    /\ pc = "InitSettings"
    /\ handlers = {} /\ appRunning = FALSE /\ requested = FALSE
    /\ server = "none" /\ ready = {} /\ window = "closed"
    /\ loop = FALSE /\ loopFailed = FALSE /\ advertising = FALSE /\ wiped = FALSE
    /\ left = FALSE
    /\ fabrics \in BOOLEAN
    /\ boots = 1

(***************************************************************************)
(* The main thread.                                                        *)
(***************************************************************************)
At(call) ==
    /\ pc = call
    /\ UNCHANGED <<fabrics, boots>>

Continue ==
    \E i \in DOMAIN Calls : pc = Calls[i] /\ pc' = Calls[i + 1]

\* A call that only succeeds or makes main return.
OrReturn(call) ==
    /\ At(call)
    /\ Continue \/ pc' = "returned"
    /\ UNCHANGED ram

\* A call after which one of these sets of parts is set up; main goes on.
SetUp(call, outcomes) ==
    /\ At(call) /\ Continue
    /\ \E parts \in outcomes : ready' = ready \union parts
    /\ UNCHANGED <<handlers, appRunning, requested, server, window, loop,
                   loopFailed, advertising, wiped, left>>

InitSettings  == OrReturn("InitSettings")
InitChipStack == OrReturn("InitChipStack")

\* What AddEventHandler returns is ignored.
AddEventHandlers ==
    /\ At("AddEventHandlers") /\ Continue
    /\ handlers' \in SUBSET {"reset"}
    /\ UNCHANGED <<appRunning, requested, server, ready, window, loop,
                   loopFailed, advertising, wiped, left>>

\* AppTask::StartApp: from here on the button works.  Its Init may fail before it
\* adds its handler, and ignores it if that is refused.
StartApp ==
    /\ At("StartApp")
    /\ handlers' \in {handlers, handlers \union {"app"}}
    /\ \/ Continue /\ appRunning' = TRUE
       \/ pc' = "returned" /\ UNCHANGED appRunning
    /\ UNCHANGED <<requested, server, ready, window, loop, loopFailed, advertising, wiped, left>>

\* LoadSettingsIfEnabled and ConfigureDeviceName ignore their errors.
LoadSettings        == SetUp("LoadSettings", {{"settings"}, {}})
ConfigureDeviceName == SetUp("DeviceName", {{"name"}, {}})

InitStatic == OrReturn("InitStatic")

\* Mutated form: boot goes on with a server that failed to initialise.
ServerInitGoesOn ==
    /\ At("ServerInit")
    /\ Continue
    /\ server' \in {"up", "failed"}
    /\ UNCHANGED <<handlers, appRunning, requested, ready, window, loop,
                   loopFailed, advertising, wiped, left>>

ServerInit ==
    /\ At("ServerInit")
    /\ \/ Continue /\ server' = "up"
       \/ pc' = "returned" /\ UNCHANGED server
    /\ UNCHANGED <<handlers, appRunning, requested, ready, window, loop,
                   loopFailed, advertising, wiped, left>>

RegisterTimeSyncDelegate == SetUp("TimeSync", {{"timeSync"}})

\* The other attribute overrides, event logging, MRP and the revision check.
RegisterOverrides == SetUp("Overrides", {{"overrides"}})

\* The group data provider; its failure is logged only.
InitManagementClusters == SetUp("ManagementClusters", {{"groups"}, {}})

\* EnsureAccessControlReady and AssertRootAccessControlReady: VerifyOrDie.
AccessControl ==
    /\ At("AccessControl")
    /\ Continue \/ pc' = "died"
    /\ UNCHANGED ram

\* The fabric delegate may be refused, the ACL listener is not.
InitializeFabricHandlers == SetUp("FabricHandlers", {{"listener"}})

\* Mutated form: the test of FabricCount is inverted.
OpenCommissioningWindowIfFabrics ==
    /\ At("OpenWindow") /\ Continue
    /\ IF ~fabrics THEN UNCHANGED window ELSE window' \in {"open", "failed"}
    /\ UNCHANGED <<handlers, appRunning, requested, server, ready, loop, loopFailed,
                   advertising, wiped, left>>

OpenCommissioningWindowIfNeeded ==
    /\ At("OpenWindow") /\ Continue
    /\ IF fabrics THEN UNCHANGED window ELSE window' \in {"open", "failed"}
    /\ UNCHANGED <<handlers, appRunning, requested, server, ready, loop, loopFailed,
                   advertising, wiped, left>>

\* On a board with Wi-Fi; what the cluster's Init returns is ignored.
InitWifiCommissioningCluster == SetUp("WifiCluster", {{"wifi"}, {}})

\* The sensor's first value and its timer (module SoilSensor).
InitSoilSensor == SetUp("SoilSensor", {{"soil"}})

StartEventLoopTask ==
    /\ At("StartEventLoop") /\ Continue
    /\ \E started \in BOOLEAN : loop' = started /\ loopFailed' = ~started
    /\ UNCHANGED <<handlers, appRunning, requested, server, ready, window,
                   advertising, wiped, left>>

\* The main thread goes on beside the event loop.
SetStorageDelegate == At("StorageDelegate") /\ Continue /\ UNCHANGED ram

EnableAdvertising ==
    /\ At("EnableAdvertising") /\ Continue
    /\ advertising' = TRUE
    /\ UNCHANGED <<handlers, appRunning, requested, server, ready, window,
                   loop, loopFailed, wiped, left>>

\* The calls but the one of the sensor.
MainCall ==
    \/ InitSettings \/ InitChipStack \/ AddEventHandlers \/ StartApp \/ LoadSettings
    \/ ConfigureDeviceName \/ InitStatic \/ ServerInit \/ RegisterTimeSyncDelegate
    \/ RegisterOverrides \/ InitManagementClusters \/ AccessControl
    \/ InitializeFabricHandlers \/ OpenCommissioningWindowIfNeeded
    \/ InitWifiCommissioningCluster \/ StartEventLoopTask
    \/ SetStorageDelegate \/ EnableAdvertising

Main == MainCall \/ InitSoilSensor

(***************************************************************************)
(* The app thread: the end of the cancel window (module AppTask).  It runs *)
(* on when main has returned, not when the device has died.                *)
(***************************************************************************)
ScheduleFactoryReset ==
    /\ appRunning /\ ~requested /\ pc # "died"
    /\ requested' = TRUE
    /\ UNCHANGED <<pc, handlers, appRunning, server, ready, window, loop,
                   loopFailed, advertising, wiped, left, fabrics, boots>>

(***************************************************************************)
(* The event loop.                                                         *)
(***************************************************************************)
Commission ==
    /\ loop /\ window = "open" /\ ~wiped
    /\ window' = "closed" /\ fabrics' = TRUE
    /\ UNCHANGED <<pc, handlers, appRunning, requested, server, ready, loop,
                   loopFailed, advertising, wiped, left, boots>>

\* The administrator removes the last fabric; nothing reopens the window.
RemoveLastFabric ==
    /\ loop /\ fabrics /\ ~wiped
    /\ fabrics' = FALSE /\ left' = TRUE
    /\ UNCHANGED <<pc, handlers, appRunning, requested, server, ready, window, loop, loopFailed,
                   advertising, wiped, boots>>

WindowTimeout ==
    /\ loop /\ window = "open" /\ ~wiped
    /\ window' = "expired"
    /\ UNCHANGED <<pc, handlers, appRunning, requested, server, ready, loop, loopFailed,
                   advertising, wiped, left, fabrics, boots>>

\* Mutated form: the commissioning window is not closed.
DoWipeInWindow ==
    /\ loop /\ requested /\ "reset" \in handlers /\ ~wiped
    /\ wiped' = TRUE
    /\ server' = "down"
    /\ fabrics' \in {FALSE, fabrics}
    /\ UNCHANGED <<pc, handlers, appRunning, requested, ready, window, loop,
                   loopFailed, advertising, left, boots>>

\* Mutated form: a device without fabrics is not wiped.
DoWipeIfCommissioned ==
    /\ loop /\ requested /\ "reset" \in handlers /\ ~wiped
    /\ fabrics
    /\ wiped' = TRUE
    /\ server' = "down" /\ window' = "closed"
    /\ fabrics' \in {FALSE, fabrics}
    /\ UNCHANGED <<pc, handlers, appRunning, requested, ready, loop,
                   loopFailed, advertising, left, boots>>

\* FactoryResetEventHandler up to its k_msleep; a failed wipe may keep fabrics.
DoFullMatterWipe ==
    /\ loop /\ requested /\ "reset" \in handlers /\ ~wiped
    /\ wiped' = TRUE
    /\ server' = "down" /\ window' = "closed"
    /\ fabrics' \in {FALSE, fabrics}
    /\ UNCHANGED <<pc, handlers, appRunning, requested, ready, loop,
                   loopFailed, advertising, left, boots>>

SystemReset ==
    /\ wiped
    /\ boots < MaxBoots
    /\ boots' = boots + 1
    /\ pc' = "InitSettings"
    /\ Reset
    /\ UNCHANGED fabrics

\* What the threads beside main do.
Beside ==
    \/ ScheduleFactoryReset
    \/ Commission \/ RemoveLastFabric \/ WindowTimeout
    \/ DoFullMatterWipe

Next == Main \/ Beside \/ SystemReset

Spec == Init /\ [][Next]_vars

\* Every thread that can run does.
Fairness == WF_vars(Main) /\ WF_vars(DoFullMatterWipe) /\ WF_vars(SystemReset)

FairSpec == Spec /\ Fairness

(***************************************************************************)
(* Properties.                                                             *)
(***************************************************************************)
Stopped == {"returned", "died"}

TypeOK ==
    /\ pc \in {Calls[i] : i \in DOMAIN Calls} \union Stopped
    /\ handlers \subseteq {"reset", "app"}
    /\ {appRunning, requested, loop, loopFailed, advertising, wiped,
        left, fabrics} \subseteq BOOLEAN
    /\ ready \subseteq Parts
    /\ window \in {"closed", "open", "expired", "failed"}
    /\ server \in {"none", "up", "down"}
    /\ boots \in 1..MaxBoots

\* Whatever was posted to the event loop before main started it (a reset asked
\* for while the server was still being set up) is handled on a complete server:
\* initialised, with the access-control listener in place; and no read reaches it
\* before the overrides and the sensor's first value.
LoopRunsOnReadyServer ==
    loop => /\ server # "none"
            /\ {"timeSync", "overrides", "listener", "soil"} \subseteq ready

\* A device whose boot found no fabric can be commissioned once its event loop
\* runs: the window was opened, or opening it failed; it closes after its 15
\* minutes, with the commissioning, or for a wipe.  (A device whose last fabric is
\* removed while it runs is the exception: no window opens before the next boot.
\* That main opens it by itself is not what README.md says: AdvertisingIsManual.)
CommissionableWithoutFabric == loop /\ ~fabrics /\ ~left => window # "closed" \/ wiped

\* A reset asked for at any moment of the boot is served, unless main stopped
\* before the event loop, the loop could not be started, or the platform refused
\* the reset's handler.  (AppTask::StartApp, StartEventLoopTask, AddEventHandler)
RequestServed ==
    requested ~> wiped \/ pc \in Stopped \/ loopFailed \/ "reset" \notin handlers

\* The device keeps the promise of FactoryReset, of which its two-step wipe is all
\* the other threads see: whatever main, the button and the administrator
\* interleave, the window opens only with the loop of a boot without fabrics, is
\* closed by every wipe, and a wipe only ends in the reset.
Phase ==
    IF wiped THEN "wiping" ELSE IF loop THEN "running"
    ELSE IF pc \in Stopped \/ loopFailed THEN "stopped" ELSE "off"

Promise == INSTANCE FactoryReset WITH
    phase <- Phase, commissioned <- fabrics, window <- loop /\ window = "open"

KeepsResetPromise == Promise!Spec

(***************************************************************************)
(* Statements of the repository the code does not keep.                    *)
(***************************************************************************)
\* README.md:160: pressing the button for more than 3 s "initiates the factory
\* reset of the device".
RequestResetsDevice == requested ~> wiped

\* README.md:64-69: "For security reasons, you must start Bluetooth LE advertising
\* manually after powering up the device by pressing" a button.  (The one press of
\* a button in this module is the one that asks for a reset; no handler of a press
\* starts advertising.)
AdvertisingIsManual == advertising => requested
=============================================================================
