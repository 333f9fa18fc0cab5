CONSTANTS
    HasApUsb = TRUE
    ConsolePreempts = TRUE
SPECIFICATION Spec
INVARIANTS
    TxNeedsCcd
