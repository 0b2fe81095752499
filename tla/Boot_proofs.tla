----------------------------- MODULE Boot_proofs -----------------------------
(***************************************************************************)
(* Proofs about Boot, for any number of boots: type correctness, that the  *)
(* event loop finds a complete server, that a boot without fabrics opens   *)
(* the commissioning window, and that Boot implements FactoryReset.        *)
(*                                                                         *)
(* What main has done is a matter of how far it is: Order lists the calls  *)
(* that can come after one another, and Done says of each part of the set- *)
(* up from which call on it is there.                                      *)
(***************************************************************************)
EXTENDS Boot, TLAPS

\* The calls main may be at once it has made the call in the name.  (main)
LoopStarted == {"StorageDelegate", "EnableAdvertising", "Idle"}
SoilDone    == LoopStarted \union {"StartEventLoop"}
WindowDone  == SoilDone \union {"WifiCluster", "SoilSensor"}
ListenerDone  == WindowDone \union {"OpenWindow"}
OverridesDone == ListenerDone \union {"ManagementClusters", "AccessControl", "FabricHandlers"}
TimeSyncDone  == OverridesDone \union {"Overrides"}
ServerDone    == TimeSyncDone \union {"TimeSync"}
HandlersDone  == ServerDone \union {"StartApp", "LoadSettings", "DeviceName", "InitStatic",
                                    "ServerInit"}
AllCalls == HandlersDone \union {"InitSettings", "InitChipStack", "AddEventHandlers"}

\* main makes its calls in this order.
LEMMA Order ==
    ASSUME Continue, pc # "Idle"
    PROVE  \/ pc = "InitSettings" /\ pc' = "InitChipStack"
           \/ pc = "InitChipStack" /\ pc' = "AddEventHandlers"
           \/ pc = "AddEventHandlers" /\ pc' = "StartApp"
           \/ pc = "StartApp" /\ pc' = "LoadSettings"
           \/ pc = "LoadSettings" /\ pc' = "DeviceName"
           \/ pc = "DeviceName" /\ pc' = "InitStatic"
           \/ pc = "InitStatic" /\ pc' = "ServerInit"
           \/ pc = "ServerInit" /\ pc' = "TimeSync"
           \/ pc = "TimeSync" /\ pc' = "Overrides"
           \/ pc = "Overrides" /\ pc' = "ManagementClusters"
           \/ pc = "ManagementClusters" /\ pc' = "AccessControl"
           \/ pc = "AccessControl" /\ pc' = "FabricHandlers"
           \/ pc = "FabricHandlers" /\ pc' = "OpenWindow"
           \/ pc = "OpenWindow" /\ pc' = "WifiCluster"
           \/ pc = "WifiCluster" /\ pc' = "SoilSensor"
           \/ pc = "SoilSensor" /\ pc' = "StartEventLoop"
           \/ pc = "StartEventLoop" /\ pc' = "StorageDelegate"
           \/ pc = "StorageDelegate" /\ pc' = "EnableAdvertising"
           \/ pc = "EnableAdvertising" /\ pc' = "Idle"
<1>1. DOMAIN Calls = 1..20
  BY DEF Calls
<1>2. PICK i \in 1..20 : pc = Calls[i] /\ pc' = Calls[i + 1]
  BY <1>1 DEF Continue
<1>3. CASE i \in 1..6
  BY <1>2, <1>3 DEF Calls
<1>4. CASE i \in 7..12
  BY <1>2, <1>4 DEF Calls
<1>5. CASE i \in 13..20
  BY <1>2, <1>5 DEF Calls
<1>6. QED
  BY <1>3, <1>4, <1>5

\* They are the calls of main.
LEMMA CallsAre == {Calls[i] : i \in DOMAIN Calls} = AllCalls
<1>1. DOMAIN Calls = 1..20
  BY DEF Calls
<1>2. {Calls[i] : i \in 1..20} \subseteq AllCalls
  BY DEF Calls, AllCalls, HandlersDone, ServerDone, TimeSyncDone, OverridesDone, ListenerDone,
         WindowDone, SoilDone, LoopStarted
<1>3. ASSUME NEW c \in AllCalls PROVE \E i \in 1..20 : c = Calls[i]
  <2>1. CASE c \in ServerDone
    BY <2>1 DEF Calls, ServerDone, TimeSyncDone, OverridesDone, ListenerDone, WindowDone, SoilDone,
                LoopStarted
  <2>2. CASE c \in AllCalls \ ServerDone
    BY <2>2 DEF Calls, AllCalls, HandlersDone
  <2>3. QED
    BY <2>1, <2>2
<1>4. QED
  BY <1>1, <1>2, <1>3

(***************************************************************************)
(* The inductive invariant.                                                *)
(***************************************************************************)
\* The parts that are set up, by the call main has reached.
Done ==
    /\ pc \in ServerDone => server # "none"
    /\ pc \in TimeSyncDone => "timeSync" \in ready
    /\ pc \in OverridesDone => "overrides" \in ready
    /\ pc \in ListenerDone => "listener" \in ready
    /\ pc \in SoilDone => "soil" \in ready

\* The event loop runs, and a wipe is in progress, only once main is past
\* StartEventLoopTask, which started it or failed to.
LoopIsLate ==
    /\ loop => pc \in LoopStarted /\ ~loopFailed
    /\ loopFailed => pc \in LoopStarted
    /\ wiped => loop /\ window = "closed"

\* The window is opened only by a boot that finds no fabric, and such a boot
\* has tried to open it once main is past OpenCommissioningWindowIfNeeded.
WindowKnown ==
    /\ pc \in WindowDone /\ ~fabrics /\ ~left => window # "closed" \/ wiped
    /\ ~loop => ~left /\ (window # "closed" => pc \in WindowDone \union Stopped /\ ~fabrics)

Inv == TypeOK /\ Done /\ LoopIsLate /\ WindowKnown

(***************************************************************************)
(* The invariant is kept.                                                  *)
(***************************************************************************)
LEMMA InitInv == Init => Inv
<1>1. ASSUME Init PROVE TypeOK
  <2>1. pc \in AllCalls
    BY <1>1 DEF Init, AllCalls
  <2>2. boots \in 1..MaxBoots
    BY <1>1, BootAssumption DEF Init
  <2>3. QED
    BY <1>1, <2>1, <2>2, CallsAre DEF Init, TypeOK
<1>2. Init => Done /\ LoopIsLate /\ WindowKnown
  BY DEF Init, Done, LoopIsLate, WindowKnown, AllCalls, Stopped, HandlersDone, ServerDone, TimeSyncDone,
          OverridesDone, ListenerDone, WindowDone, SoilDone, LoopStarted
<1>3. QED
  BY <1>1, <1>2 DEF Inv

\* Each call of main keeps it: it moves main on by one call, or stops it.
LEMMA MainStep == ASSUME Inv, Main PROVE Inv'
<1> USE CallsAre DEF Inv, TypeOK, Done, LoopIsLate, WindowKnown, At, ram, AllCalls, Stopped, HandlersDone, ServerDone, TimeSyncDone,
          OverridesDone, ListenerDone, WindowDone, SoilDone, LoopStarted
<1>1. CASE InitSettings
  <2>1. pc = "InitSettings" /\ (pc' = "InitChipStack" \/ pc' = "returned")
    BY <1>1, Order DEF InitSettings, OrReturn
  <2>2. QED
    BY <1>1, <2>1 DEF InitSettings, OrReturn
<1>2. CASE InitChipStack
  <2>1. pc = "InitChipStack" /\ (pc' = "AddEventHandlers" \/ pc' = "returned")
    BY <1>2, Order DEF InitChipStack, OrReturn
  <2>2. QED
    BY <1>2, <2>1 DEF InitChipStack, OrReturn
<1>3. CASE AddEventHandlers
  <2>1. pc = "AddEventHandlers" /\ (pc' = "StartApp")
    BY <1>3, Order DEF AddEventHandlers
  <2>2. QED
    BY <1>3, <2>1 DEF AddEventHandlers
<1>4. CASE StartApp
  <2>1. pc = "StartApp" /\ (pc' = "LoadSettings" \/ pc' = "returned")
    BY <1>4, Order DEF StartApp
  <2>2. QED
    BY <1>4, <2>1 DEF StartApp
<1>5. CASE LoadSettings
  <2>1. pc = "LoadSettings" /\ (pc' = "DeviceName")
    BY <1>5, Order DEF LoadSettings, SetUp
  <2>2. QED
    BY <1>5, <2>1 DEF LoadSettings, SetUp, Parts
<1>6. CASE ConfigureDeviceName
  <2>1. pc = "DeviceName" /\ (pc' = "InitStatic")
    BY <1>6, Order DEF ConfigureDeviceName, SetUp
  <2>2. QED
    BY <1>6, <2>1 DEF ConfigureDeviceName, SetUp, Parts
<1>7. CASE InitStatic
  <2>1. pc = "InitStatic" /\ (pc' = "ServerInit" \/ pc' = "returned")
    BY <1>7, Order DEF InitStatic, OrReturn
  <2>2. QED
    BY <1>7, <2>1 DEF InitStatic, OrReturn
<1>8. CASE ServerInit
  <2>1. pc = "ServerInit" /\ (pc' = "TimeSync" \/ pc' = "returned")
    BY <1>8, Order DEF ServerInit
  <2>2. QED
    BY <1>8, <2>1 DEF ServerInit
<1>9. CASE RegisterTimeSyncDelegate
  <2>1. pc = "TimeSync" /\ (pc' = "Overrides")
    BY <1>9, Order DEF RegisterTimeSyncDelegate, SetUp
  <2>2. QED
    BY <1>9, <2>1 DEF RegisterTimeSyncDelegate, SetUp, Parts
<1>10. CASE RegisterOverrides
  <2>1. pc = "Overrides" /\ (pc' = "ManagementClusters")
    BY <1>10, Order DEF RegisterOverrides, SetUp
  <2>2. QED
    BY <1>10, <2>1 DEF RegisterOverrides, SetUp, Parts
<1>11. CASE InitManagementClusters
  <2>1. pc = "ManagementClusters" /\ (pc' = "AccessControl")
    BY <1>11, Order DEF InitManagementClusters, SetUp
  <2>2. QED
    BY <1>11, <2>1 DEF InitManagementClusters, SetUp, Parts
<1>12. CASE AccessControl
  <2>1. pc = "AccessControl" /\ (pc' = "FabricHandlers" \/ pc' = "died")
    BY <1>12, Order DEF AccessControl
  <2>2. QED
    BY <1>12, <2>1 DEF AccessControl
<1>13. CASE InitializeFabricHandlers
  <2>1. pc = "FabricHandlers" /\ (pc' = "OpenWindow")
    BY <1>13, Order DEF InitializeFabricHandlers, SetUp
  <2>2. QED
    BY <1>13, <2>1 DEF InitializeFabricHandlers, SetUp, Parts
<1>14. CASE OpenCommissioningWindowIfNeeded
  <2>1. pc = "OpenWindow" /\ (pc' = "WifiCluster")
    BY <1>14, Order DEF OpenCommissioningWindowIfNeeded
  <2>2. QED
    BY <1>14, <2>1 DEF OpenCommissioningWindowIfNeeded
<1>15. CASE InitWifiCommissioningCluster
  <2>1. pc = "WifiCluster" /\ (pc' = "SoilSensor")
    BY <1>15, Order DEF InitWifiCommissioningCluster, SetUp
  <2>2. QED
    BY <1>15, <2>1 DEF InitWifiCommissioningCluster, SetUp, Parts
<1>16. CASE InitSoilSensor
  <2>1. pc = "SoilSensor" /\ (pc' = "StartEventLoop")
    BY <1>16, Order DEF InitSoilSensor, SetUp
  <2>2. QED
    BY <1>16, <2>1 DEF InitSoilSensor, SetUp, Parts
<1>17. CASE StartEventLoopTask
  <2>1. pc = "StartEventLoop" /\ (pc' = "StorageDelegate")
    BY <1>17, Order DEF StartEventLoopTask
  <2>2. QED
    BY <1>17, <2>1 DEF StartEventLoopTask
<1>18. CASE SetStorageDelegate
  <2>1. pc = "StorageDelegate" /\ (pc' = "EnableAdvertising")
    BY <1>18, Order DEF SetStorageDelegate
  <2>2. QED
    BY <1>18, <2>1 DEF SetStorageDelegate
<1>19. CASE EnableAdvertising
  <2>1. pc = "EnableAdvertising" /\ (pc' = "Idle")
    BY <1>19, Order DEF EnableAdvertising
  <2>2. QED
    BY <1>19, <2>1 DEF EnableAdvertising
<1>20. QED
  BY <1>1, <1>2, <1>3, <1>4, <1>5, <1>6, <1>7, <1>8, <1>9, <1>10, <1>11, <1>12, <1>13, <1>14, <1>15, <1>16, <1>17, <1>18, <1>19
     DEF Main, MainCall

\* Each step of the other threads keeps it.
LEMMA ThreadStep ==
    ASSUME Inv,
           \/ ScheduleFactoryReset \/ Commission \/ RemoveLastFabric \/ WindowTimeout
           \/ DoFullMatterWipe \/ SystemReset
    PROVE  Inv'
<1> USE CallsAre DEF Inv, TypeOK, Done, LoopIsLate, WindowKnown, AllCalls, Stopped, HandlersDone, ServerDone, TimeSyncDone,
          OverridesDone, ListenerDone, WindowDone, SoilDone, LoopStarted
<1>1. CASE ScheduleFactoryReset
  BY <1>1 DEF ScheduleFactoryReset
<1>2. CASE Commission
  BY <1>2 DEF Commission
<1>3. CASE RemoveLastFabric
  BY <1>3 DEF RemoveLastFabric
<1>4. CASE WindowTimeout
  BY <1>4 DEF WindowTimeout
<1>5. CASE DoFullMatterWipe
  BY <1>5 DEF DoFullMatterWipe
<1>6. CASE SystemReset
  <2>1. boots' \in 1..MaxBoots
    BY <1>6, BootAssumption DEF SystemReset
  <2>2. pc' = "InitSettings"
    BY <1>6 DEF SystemReset
  <2>3. QED
    BY <1>6, <2>1, <2>2 DEF SystemReset, Reset
<1>7. QED
  BY <1>1, <1>2, <1>3, <1>4, <1>5, <1>6

LEMMA StepInv == Inv /\ [Next]_vars => Inv'
<1> SUFFICES ASSUME Inv, [Next]_vars PROVE Inv'
  OBVIOUS
<1>1. CASE UNCHANGED vars
  BY <1>1 DEF vars, ram, Inv, TypeOK, Done, LoopIsLate, WindowKnown
<1>2. QED
  BY <1>1, MainStep, ThreadStep DEF Next, Beside

LEMMA InvHolds == Spec => []Inv
  BY InitInv, StepInv, PTL DEF Spec

(***************************************************************************)
(* The theorems.                                                           *)
(***************************************************************************)
\* Boot is type correct, for any number of boots.  (main and its threads)
THEOREM TypeCorrect == Spec => []TypeOK
<1>1. Inv => TypeOK
  BY DEF Inv
<1>2. QED
  BY <1>1, InvHolds, PTL

\* Whichever calls of main failed or were refused, the event loop never runs
\* without a server, the overrides, the access-control listener and the sensor's
\* first value.  (main)
THEOREM ReadyServer == Spec => []LoopRunsOnReadyServer
<1>1. Inv => LoopRunsOnReadyServer
  BY DEF Inv, Done, LoopIsLate, LoopRunsOnReadyServer, HandlersDone, ServerDone, TimeSyncDone,
         OverridesDone, ListenerDone, WindowDone, SoilDone
<1>2. QED
  BY <1>1, InvHolds, PTL

\* A boot that found no fabric has opened the commissioning window, or failed to,
\* before the event loop runs.  (OpenCommissioningWindowIfNeeded)
THEOREM Commissionable == Spec => []CommissionableWithoutFabric
<1>1. Inv => CommissionableWithoutFabric
  BY DEF Inv, LoopIsLate, WindowKnown, CommissionableWithoutFabric, WindowDone, SoilDone
<1>2. QED
  BY <1>1, InvHolds, PTL

\* Every call of main is a stutter of FactoryReset, but the one that starts the
\* event loop and those that end the boot before it.
LEMMA PromiseMainStep == ASSUME Inv, Main PROVE [Promise!Next]_(Promise!vars)
<1>1. CASE StartEventLoopTask
  <2>1. /\ ~loop /\ ~wiped /\ ~loopFailed /\ ~wiped' /\ pc \notin Stopped
        /\ window' = window /\ fabrics' = fabrics /\ loopFailed' = ~loop'
    BY <1>1 DEF StartEventLoopTask, At, Inv, TypeOK, LoopIsLate, LoopStarted, Stopped
  <2>2. Phase = "off"
    BY <2>1 DEF Phase
  <2>3. CASE loop'
    <3>1. (window = "open") \in {FALSE, ~fabrics}
      BY <2>1 DEF Inv, WindowKnown, TypeOK
    <3>2. Phase' = "running"
      BY <2>1, <2>3 DEF Phase
    <3>3. Promise!PowerUp
      BY <2>1, <2>2, <2>3, <3>1, <3>2 DEF Promise!PowerUp
    <3>4. QED
      BY <3>3 DEF Promise!Next
  <2>4. CASE ~loop'
    <3>1. Phase' = "stopped"
      BY <2>1, <2>4 DEF Phase
    <3>2. Promise!BootFails
      BY <2>1, <2>2, <2>4, <3>1 DEF Promise!BootFails
    <3>3. QED
      BY <3>2 DEF Promise!Next
  <2>5. QED
    BY <2>3, <2>4
<1>2. CASE ~StartEventLoopTask
  <2>1. /\ UNCHANGED <<wiped, loop, loopFailed, fabrics>>
        /\ pc \notin Stopped
        /\ window' = window \/ ~loop
    BY <1>2 DEF Main, MainCall, InitSettings, InitChipStack, AddEventHandlers, StartApp, LoadSettings,
                ConfigureDeviceName, InitStatic, ServerInit, RegisterTimeSyncDelegate,
                RegisterOverrides, InitManagementClusters, AccessControl,
                InitializeFabricHandlers, InitWifiCommissioningCluster, InitSoilSensor,
                OpenCommissioningWindowIfNeeded, SetStorageDelegate, EnableAdvertising, OrReturn,
                SetUp, At, ram, Inv, LoopIsLate, LoopStarted, Stopped
  <2>2. (loop /\ window = "open")' = (loop /\ window = "open")
    BY <2>1 DEF Inv, TypeOK
  <2>3. CASE pc' \in Stopped /\ ~loop /\ ~loopFailed
    <3>1. Phase = "off" /\ Phase' = "stopped"
      BY <2>1, <2>3 DEF Phase, Inv, LoopIsLate
    <3>2. Promise!BootFails
      BY <2>1, <2>2, <3>1 DEF Promise!BootFails
    <3>3. QED
      BY <3>2 DEF Promise!Next
  <2>4. CASE ~(pc' \in Stopped /\ ~loop /\ ~loopFailed)
    <3>1. Phase' = Phase
      BY <2>1, <2>4 DEF Phase
    <3>2. QED
      BY <2>1, <2>2, <3>1 DEF Promise!vars
  <2>5. QED
    BY <2>3, <2>4
<1>3. QED
  BY <1>1, <1>2

LEMMA PromiseThreadStep ==
    ASSUME Inv,
           \/ ScheduleFactoryReset \/ Commission \/ RemoveLastFabric \/ WindowTimeout
           \/ DoFullMatterWipe \/ SystemReset
    PROVE  [Promise!Next]_(Promise!vars)
<1> USE DEF Phase, Promise!vars, Inv, LoopIsLate
<1>1. CASE ScheduleFactoryReset
  BY <1>1 DEF ScheduleFactoryReset
<1>2. CASE Commission
  <2>1. Promise!Commission
    BY <1>2 DEF Commission, Promise!Commission
  <2>2. QED
    BY <2>1 DEF Promise!Next
<1>3. CASE RemoveLastFabric
  <2>1. Promise!Leave
    BY <1>3 DEF RemoveLastFabric, Promise!Leave
  <2>2. QED
    BY <2>1 DEF Promise!Next
<1>4. CASE WindowTimeout
  <2>1. Promise!ToggleWindow
    BY <1>4 DEF WindowTimeout, Promise!ToggleWindow
  <2>2. QED
    BY <2>1 DEF Promise!Next
<1>5. CASE DoFullMatterWipe
  <2>1. Promise!Wipe
    BY <1>5 DEF DoFullMatterWipe, Promise!Wipe
  <2>2. QED
    BY <2>1 DEF Promise!Next
<1>6. CASE SystemReset
  <2>1. Phase' = "off"
    BY <1>6 DEF SystemReset, Reset, Stopped
  <2>2. Promise!Reset
    BY <1>6, <2>1 DEF SystemReset, Reset, Promise!Reset
  <2>3. QED
    BY <2>2 DEF Promise!Next
<1>7. QED
  BY <1>1, <1>2, <1>3, <1>4, <1>5, <1>6

\* Boot, with its threads and failures, implements FactoryReset.
THEOREM Refinement == Spec => KeepsResetPromise
<1>1. Init => Promise!Init
  BY DEF Init, Promise!Init, Phase, Stopped
<1>2. Inv /\ [Next]_vars => [Promise!Next]_(Promise!vars)
  <2> SUFFICES ASSUME Inv, [Next]_vars PROVE [Promise!Next]_(Promise!vars)
    OBVIOUS
  <2>1. CASE UNCHANGED vars
    BY <2>1 DEF vars, ram, Phase, Promise!vars
  <2>2. QED
    BY <2>1, PromiseMainStep, PromiseThreadStep DEF Next, Beside
<1>3. QED
  BY <1>1, <1>2, InvHolds, PTL DEF Spec, KeepsResetPromise, Promise!Spec
=============================================================================
