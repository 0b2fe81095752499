SPECIFICATION Spec
CONSTANTS
    Preemption = "chip"
    MaxQueued = 2
INVARIANTS
    ShortFlashOffWhenUnconnected
