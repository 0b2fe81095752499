-------------------------- MODULE SoilSensor_proofs --------------------------
(***************************************************************************)
(* The soil sensor in the device of module Boot, for every upper limit and *)
(* any number of boots: it changes nothing of the boot, so that what is    *)
(* proved of Boot holds with it; a client reads what was drawn last; and   *)
(* every update changes it.                                                *)
(*                                                                         *)
(* The argument: the sensor's stages are steps of main's call (Staged),    *)
(* and the event loop runs after that call (Inv of Boot_proofs).           *)
(***************************************************************************)
EXTENDS SoilSensor, Boot_proofs

\* The last value and the cluster's, by the stage Init has reached.
Staged ==
    /\ stage \in {"first", "arm"} => pc = "SoilSensor"
    /\ "soil" \in ready => stage = "done"
    /\ IF stage \in {"create", "first"}
       THEN gSoilLast = MaxMoisture + 1 /\ measured = Null
       ELSE gSoilLast \in Limits /\ measured = gSoilLast

SensorInv == SensorTypeOK /\ Staged

\* A drawn value lies in the limits of the cluster and differs from the one
\* before, for every limit.
LEMMA DrawnInLimits ==
    ASSUME NEW random \in Limits, gSoilLast \in 0..MaxMoisture + 1
    PROVE  Drawn(random) \in Limits /\ Drawn(random) # gSoilLast
  <1>1. CASE random # gSoilLast
    BY <1>1 DEF Drawn
  <1>2. CASE random = gSoilLast /\ random = MaxMoisture
    BY <1>2, MoistureAssumption DEF Drawn, Limits
  <1>3. CASE random = gSoilLast /\ random < MaxMoisture
    BY <1>3, MoistureAssumption DEF Drawn, Limits
  <1> QED
    BY <1>1, <1>2, <1>3, MoistureAssumption DEF Limits

\* What an update leaves behind: the value drawn, accepted by the cluster.
LEMMA UpdateServes ==
    ASSUME SensorTypeOK, Update
    PROVE  /\ gSoilLast' \in Limits /\ gSoilLast' # gSoilLast
           /\ measured' = gSoilLast'
  <1>1. gSoilLast \in 0..MaxMoisture + 1
    BY MoistureAssumption DEF SensorTypeOK, Limits
  <1>2. PICK random \in Limits : SetMeasuredValue(Drawn(random)) /\ gSoilLast' = Drawn(random)
    BY DEF Update
  <1> QED
    BY <1>1, <1>2, DrawnInLimits DEF SetMeasuredValue

(***************************************************************************)
(* The sensor adds to Boot what Boot does not see.                         *)
(***************************************************************************)
LEMMA SensorStep == [SensorNext]_allVars => [Next]_vars
  BY DEF SensorNext, SensorMain, Create, FirstUpdate, Arm, SoilUpdateTimer, Restart, allVars,
         Next, Main

\* The device with the sensor is the device of Boot: the sensor's steps are main's
\* one call for it, or none.  (main.cpp:179-182)
THEOREM SensorIsBoot == SensorSpec => Spec
  <1>1. SensorInit => Init
    BY DEF SensorInit
  <1> QED
    BY <1>1, SensorStep, PTL DEF SensorSpec, Spec

LEMMA SensorInvInit == SensorInit => SensorInv
  <1> SUFFICES ASSUME SensorInit
               PROVE  SensorInv
    OBVIOUS
  <1>1. gSoilLast \in 0..MaxMoisture + 1
    BY MoistureAssumption DEF SensorInit
  <1>2. "soil" \notin ready
    BY DEF SensorInit, Init
  <1> QED
    BY <1>1, <1>2 DEF SensorInit, SensorInv, SensorTypeOK, Staged

\* Neither another call of main nor another thread sets the sensor up, and main is
\* at its call for as long as Init has not returned.
LEMMA OthersKeepStage ==
    ASSUME SensorInv, MainCall \/ Beside, UNCHANGED sensor
    PROVE  SensorInv'
  <1>1. SensorTypeOK' /\ (gSoilLast' = gSoilLast /\ measured' = measured /\ stage' = stage)
    BY DEF SensorInv, SensorTypeOK, sensor, Limits
  <1>2. "soil" \in ready' => "soil" \in ready
    <2>1. CASE LoadSettings \/ ConfigureDeviceName \/ RegisterTimeSyncDelegate
      BY <2>1 DEF LoadSettings, ConfigureDeviceName, RegisterTimeSyncDelegate, SetUp
    <2>2. CASE RegisterOverrides \/ InitManagementClusters
      BY <2>2 DEF RegisterOverrides, InitManagementClusters, SetUp
    <2>3. CASE InitializeFabricHandlers \/ InitWifiCommissioningCluster
      BY <2>3 DEF InitializeFabricHandlers, InitWifiCommissioningCluster, SetUp
    <2>4. CASE \/ InitSettings \/ InitChipStack \/ AddEventHandlers \/ StartApp \/ InitStatic
               \/ ServerInit \/ AccessControl \/ OpenCommissioningWindowIfNeeded
               \/ StartEventLoopTask \/ SetStorageDelegate \/ EnableAdvertising
      BY <2>4 DEF InitSettings, InitChipStack, AddEventHandlers, StartApp, InitStatic,
                  ServerInit, AccessControl, OpenCommissioningWindowIfNeeded,
                  StartEventLoopTask, SetStorageDelegate, EnableAdvertising, OrReturn, ram
    <2>5. CASE Beside
      BY <2>5 DEF Beside, ScheduleFactoryReset, Commission, RemoveLastFabric,
                  WindowTimeout, DoFullMatterWipe
    <2> QED
      BY <2>1, <2>2, <2>3, <2>4, <2>5 DEF MainCall
  <1>3. pc = "SoilSensor" => pc' = "SoilSensor"
    <2>1. CASE MainCall
      BY <2>1 DEF MainCall, InitSettings, InitChipStack, AddEventHandlers, StartApp,
                  LoadSettings, ConfigureDeviceName, InitStatic, ServerInit,
                  RegisterTimeSyncDelegate, RegisterOverrides, InitManagementClusters,
                  AccessControl, InitializeFabricHandlers, OpenCommissioningWindowIfNeeded,
                  InitWifiCommissioningCluster, StartEventLoopTask, SetStorageDelegate,
                  EnableAdvertising, OrReturn, SetUp, At
    <2>2. CASE Beside
      BY <2>2 DEF Beside, ScheduleFactoryReset, Commission, RemoveLastFabric,
                  WindowTimeout, DoFullMatterWipe
    <2> QED
      BY <2>1, <2>2
  <1> QED
    BY <1>1, <1>2, <1>3 DEF SensorInv, Staged, Limits

LEMMA SensorInvNext == SensorInv /\ Inv /\ [SensorNext]_allVars => SensorInv'
  <1> SUFFICES ASSUME SensorInv, Inv, [SensorNext]_allVars
               PROVE  SensorInv'
    OBVIOUS
  <1> USE DEF SensorInv, SensorTypeOK, Staged, Limits
  <1>1. CASE Create
    BY <1>1 DEF Create, vars, ram
  <1>2. CASE FirstUpdate
    BY <1>2, UpdateServes, MoistureAssumption DEF FirstUpdate, vars, ram
  <1>3. CASE Arm
    BY <1>3 DEF Arm, StartTimer
  <1>4. CASE SoilUpdateTimer
    <2>1. stage = "done"
      BY <1>4 DEF SoilUpdateTimer, Inv, LoopIsLate, Done, SoilDone
    <2>2. gSoilLast' \in Limits /\ measured' = gSoilLast'
      BY <1>4, UpdateServes DEF SoilUpdateTimer
    <2>3. stage' = "done" /\ {registered', armed', refused'} \subseteq BOOLEAN
      BY <1>4, <2>1 DEF SoilUpdateTimer, StartTimer
    <2> QED
      BY <2>2, <2>3, MoistureAssumption
  <1>5. CASE Restart
    <2>1. gSoilLast' \in 0..MaxMoisture + 1
      BY <1>5, MoistureAssumption DEF Restart
    <2> QED
      BY <1>5, <2>1 DEF Restart, SystemReset, Reset
  <1>6. CASE (MainCall \/ Beside) /\ UNCHANGED sensor
    BY <1>6, OthersKeepStage
  <1>7. CASE UNCHANGED allVars
    BY <1>7 DEF allVars, vars, ram, sensor
  <1> QED
    BY <1>1, <1>2, <1>3, <1>4, <1>5, <1>6, <1>7 DEF SensorNext, SensorMain

LEMMA SensorInvHolds == SensorSpec => []SensorInv
  <1>1. SensorSpec => []Inv
    BY SensorIsBoot, InvHolds, PTL
  <1> QED
    BY <1>1, SensorInvInit, SensorInvNext, PTL DEF SensorSpec

\* Types, and what a client reads is the value drawn last, through failures of
\* main, resets and the hand-over to the loop (soil_moisture_sensor.cpp:40-41),
\* for every upper limit.
THEOREM ServedHolds == SensorSpec => [](SensorTypeOK /\ ServesLastDrawn)
  <1>1. SensorInv /\ Inv => SensorTypeOK /\ ServesLastDrawn
    BY DEF SensorInv, Staged, ServesLastDrawn, Inv, LoopIsLate, Done, SoilDone
  <1>2. SensorSpec => []Inv
    BY SensorIsBoot, InvHolds, PTL
  <1> QED
    BY <1>1, <1>2, SensorInvHolds, PTL

\* No update leaves the cluster's value as it was (soil_moisture_sensor.cpp:33-37).
THEOREM EveryUpdateChangesHolds == SensorSpec => EveryUpdateChanges
  <1>1. ASSUME SensorInv, Inv, [SensorNext]_allVars
        PROVE  [FirstUpdate \/ SoilUpdateTimer => measured' # measured]_allVars
    <2>1. CASE FirstUpdate
      BY <2>1, <1>1, UpdateServes, MoistureAssumption
         DEF FirstUpdate, SensorInv, Staged, Limits
    <2>2. CASE SoilUpdateTimer
      <3>1. stage = "done"
        BY <2>2, <1>1 DEF SoilUpdateTimer, SensorInv, Staged, Inv, LoopIsLate, Done, SoilDone
      <3> QED
        BY <2>2, <3>1, <1>1, UpdateServes DEF SoilUpdateTimer, SensorInv, Staged
    <2> QED
      BY <2>1, <2>2
  <1>2. SensorSpec => []Inv
    BY SensorIsBoot, InvHolds, PTL
  <1> QED
    BY <1>1, <1>2, SensorInvHolds, PTL DEF SensorSpec, EveryUpdateChanges
=============================================================================
