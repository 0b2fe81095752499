SPECIFICATION FairSpec
CONSTANTS
    kAppEventQueueSize = 2
    StatusLED = "DK_LED1"
    IdentifyLED = "DK_LED2"
    FactoryResetLEDs <- OneSignalLED
    MaxPresses = 2
INVARIANTS
    TypeOK
    BlinkChain
    IdleOnceReleased
    PressIsTimed
    GenuineResetMeansHeld
    WindowSignalled
PROPERTIES
    KeepsPromise
    PressEnds
    ReleaseEndsPress
