CONSTANTS
    Timeout = 3
    HasOtherButton = TRUE
SPECIFICATION Spec
INVARIANTS
    TimeoutArmed
