SPECIFICATION SensorFairSpec
CONSTANTS
    MaxBoots = 3
    MaxMoisture = 3
    Null = Null
\* main returns or dies, and the bound on boots ends a behaviour.
CHECK_DEADLOCK FALSE
INVARIANTS
    TypeOK
    LoopRunsOnReadyServer
    CommissionableWithoutFabric
    ServesLastDrawn
PROPERTIES
    RequestServed
    KeepsResetPromise
    EveryUpdateChanges
    MeasurementsGoOn
