CONSTANTS
    Timeout = 3
    HasOtherButton = FALSE
SPECIFICATION Spec
PROPERTIES
    DebugModeTimesOut
