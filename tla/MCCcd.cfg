CONSTANTS
    HasApUsb = TRUE
    ConsolePreempts = FALSE
SPECIFICATION Spec
INVARIANTS
    TxNeedsCcd
PROPERTIES
    PinLowEnablesCcd
    KeepaliveHoldsCcd
