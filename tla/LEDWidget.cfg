SPECIFICATION Spec
CONSTANTS
    Preemption = "any"
    MaxQueued = 2
INVARIANTS
    TypeOK
    BlinkGoesOn
    PeriodFollowsState
    ShowsConnectivity
