----------------------------- MODULE SoilSensor -----------------------------
(***************************************************************************)
(* The soil moisture sensor (main/src/sensors/soil_moisture_sensor.cpp) in *)
(* the device that module Boot describes.  main calls Init before it       *)
(* starts the event loop; SoilUpdateTimer draws a value, hands it to the   *)
(* SoilMeasurement cluster and starts its own timer again, on the loop.    *)
(* Nobody looks at the result of the registry, of the cluster, or of       *)
(* StartTimer: a cluster the registry refused is kept up to date all the   *)
(* same, and no client reads it.                                           *)
(***************************************************************************)
EXTENDS Boot

CONSTANTS
    MaxMoisture,  \* 100: the end of the limits the cluster is created with
    Null          \* the measured value before the first update

ASSUME MoistureAssumption == MaxMoisture \in Nat \ {0} /\ Null \notin Nat

VARIABLES
    stage,      \* how far Init is: "create", "first", "arm", then "done"
    gSoilLast,  \* the value last drawn; MaxMoisture + 1 is the sentinel
    registered, \* the registry took the cluster: clients read its value
    measured,   \* SoilMoistureMeasuredValue of the cluster
    armed,      \* the system timer runs
    refused     \* history: StartTimer has failed in this boot

sensor  == <<stage, gSoilLast, registered, measured, armed, refused>>
allVars == <<vars, sensor>>

SensorInit ==
    /\ Init
    /\ stage = "create"
    /\ gSoilLast = MaxMoisture + 1
    /\ registered = FALSE
    /\ measured = Null
    /\ armed = FALSE
    /\ refused = FALSE

Limits == 0..MaxMoisture

(***************************************************************************)
(* Init, on the main thread.                                               *)
(***************************************************************************)
\* sSoilCluster.Create, its value null, and Register, which may fail.
Create ==
    /\ pc = "SoilSensor" /\ stage = "create"
    /\ stage' = "first"
    /\ registered' \in BOOLEAN
    /\ UNCHANGED <<vars, gSoilLast, measured, armed, refused>>

\* Mutated forms: a value equal to the last one is kept, or increased past the limit.
DrawnAsIs(random) == random

DrawnUnbounded(random) == IF random = gSoilLast THEN random + 1 ELSE random

\* The value an update hands over: never the one drawn last.
Drawn(random) ==
    IF random = gSoilLast THEN (random + 1) % (MaxMoisture + 1) ELSE random

\* SetSoilMoistureMeasuredValue refuses a value outside the limits.
SetMeasuredValue(v) == measured' = IF v \in Limits THEN v ELSE measured

Update ==
    \E random \in Limits :
        /\ SetMeasuredValue(Drawn(random))
        /\ gSoilLast' = Drawn(random)

\* Mutated form: the timer is not started again.
NoStartTimer == armed' = FALSE /\ UNCHANGED refused

\* StartTimer may find no free timer.
StartTimer ==
    \/ armed' = TRUE /\ UNCHANGED refused
    \/ armed' = FALSE /\ refused' = TRUE

\* Init calls SoilUpdateTimer without a layer: the update alone.
FirstUpdate ==
    /\ pc = "SoilSensor" /\ stage = "first"
    /\ stage' = "arm"
    /\ Update
    /\ UNCHANGED <<vars, registered, armed, refused>>

\* ... starts the timer, and returns to main.
Arm ==
    /\ stage = "arm"
    /\ stage' = "done"
    /\ InitSoilSensor
    /\ StartTimer
    /\ UNCHANGED <<gSoilLast, registered, measured>>

(***************************************************************************)
(* The event loop, which serves no timer while the wipe's handler sleeps.  *)
(***************************************************************************)
SoilUpdateTimer ==
    /\ loop /\ ~wiped /\ armed
    /\ Update
    /\ StartTimer
    /\ UNCHANGED <<vars, stage, registered>>

\* The reset of the MCU takes the cluster, the timer and the last value.
Restart ==
    /\ SystemReset
    /\ stage' = "create" /\ gSoilLast' = MaxMoisture + 1 /\ registered' = FALSE
    /\ measured' = Null /\ armed' = FALSE /\ refused' = FALSE

SensorMain ==
    \/ Create \/ FirstUpdate \/ Arm
    \/ (MainCall /\ UNCHANGED sensor)

SensorNext ==
    \/ SensorMain \/ SoilUpdateTimer \/ Restart
    \/ (Beside /\ UNCHANGED sensor)

SensorSpec == SensorInit /\ [][SensorNext]_allVars

\* Every thread that can run does, and a running timer expires.
SensorFairness ==
    /\ WF_allVars(SensorMain) /\ WF_allVars(SoilUpdateTimer) /\ WF_allVars(Restart)
    /\ WF_allVars(DoFullMatterWipe /\ UNCHANGED sensor)

SensorFairSpec == SensorSpec /\ SensorFairness

(***************************************************************************)
(* Properties.                                                             *)
(***************************************************************************)
SensorTypeOK ==
    /\ stage \in {"create", "first", "arm", "done"}
    /\ gSoilLast \in 0..MaxMoisture + 1
    /\ measured \in Limits \union {Null}
    /\ {registered, armed, refused} \subseteq BOOLEAN

\* A client that reads the moisture, which is from the start of the event loop on,
\* reads the value drawn last, never the null of a cluster just created: main
\* initialises the sensor before, and the cluster refuses no value, so that
\* gSoilLast, which SoilUpdateTimer keeps without looking at the cluster's result
\* (soil_moisture_sensor.cpp:40-41), is what the cluster has.
ServesLastDrawn == loop => measured = gSoilLast

\* Every update changes the value of the cluster ("first update always changes",
\* soil_moisture_sensor.cpp:29, and every later one), so each is one to report.
EveryUpdateChanges == [][FirstUpdate \/ SoilUpdateTimer => measured' # measured]_allVars

\* The device measures on and on, over the hand-over from main's timer to the
\* timers SoilUpdateTimer starts for itself on the loop, unless it comes to rest in
\* a boot where StartTimer failed, main stopped, the loop could not be started, or
\* a wipe awaits its reset (MaxBoots ends it there).
MeasurementsGoOn ==
    \/ <>[](refused \/ pc \in Stopped \/ loopFailed \/ wiped)
    \/ []<><<measured' # measured>>_measured
=============================================================================
