CONSTANTS
    HasApUsb = TRUE
    ConsolePreempts = FALSE
SPECIFICATION Spec
INVARIANTS
    UsbFlagTracksController
