CONSTANTS
    HasApUsb = TRUE
    ConsolePreempts = TRUE
SPECIFICATION Spec
PROPERTIES
    KeepaliveHoldsCcd
