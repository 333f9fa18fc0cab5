CONSTANTS
    HasPsys = TRUE
    HasAmonBmon = TRUE
    HwRamp = TRUE
    Isl9237 = FALSE
    I2cFails = FALSE
    Values <- MCOneValue
    InitControl1 <- MCControl1AtBoot
SPECIFICATION Spec
INVARIANTS
    TypeOK
