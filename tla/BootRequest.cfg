SPECIFICATION FairSpec
CONSTANT MaxBoots = 3
CHECK_DEADLOCK FALSE
PROPERTY
    RequestResetsDevice
