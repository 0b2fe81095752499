SPECIFICATION Spec
CONSTANT MaxBoots = 3
CHECK_DEADLOCK FALSE
INVARIANT
    AdvertisingIsManual
