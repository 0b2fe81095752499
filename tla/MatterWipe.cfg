SPECIFICATION FairSpec
CONSTANTS
    Fabrics <- TwoFabrics
    NoFabric = 0
    MaxPowerLoss = 2
INVARIANTS
    TypeOK
    ResultIsHonest
    OneFabricAtATime
    NoFabricWithoutAcl
PROPERTIES
    WipeEndsCommissionable
    KeepsResetPromise
