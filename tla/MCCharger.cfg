CONSTANTS
    HasPsys = FALSE
    HasAmonBmon = FALSE
    HwRamp = TRUE
    Isl9237 = TRUE
    I2cFails = TRUE
    Values <- MCValues
    InitControl1 <- MCAnyControl1
SPECIFICATION Spec
INVARIANTS
    LearnModeConsistent
