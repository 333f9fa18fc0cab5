CONSTANTS
    Timeout = 3
    HasOtherButton = FALSE
SPECIFICATION Spec
INVARIANTS
    HitCountInv
    TimeoutArmed
PROPERTIES
    TimedStatesEnd
