CONSTANTS
    HasApUsb = TRUE
    ConsolePreempts = FALSE
SPECIFICATION Spec
PROPERTIES
    CcdReleased
