CONSTANTS
    HasPsys = TRUE
    HasAmonBmon = FALSE
    HwRamp = FALSE
    Isl9237 = TRUE
    I2cFails = FALSE
    Values <- MCOneValue
    InitControl1 <- MCControl1AtBoot
SPECIFICATION Spec
INVARIANTS
    LearnModeConsistent
