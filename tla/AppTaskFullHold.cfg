SPECIFICATION Spec
CONSTANTS
    kAppEventQueueSize = 2
    StatusLED = "DK_LED1"
    IdentifyLED = "DK_LED2"
    FactoryResetLEDs <- TwoLedBoard
    MaxPresses = 2
INVARIANTS
    WindowNeedsFullHold
