CONSTANTS
    W <- MCW
    ImageShv <- MCImageShv
    TargShv <- MCTargShv
    RwOffset = "RW_B"
    RoOffset = "RO_A"
    UpstartMode = FALSE
    PostReset = FALSE
    ProtocolVersion = 6
    NumBlocks <- MCNumBlocks
    MaxRetries = 2
    Timeouts = TRUE
    TargetFails = TRUE
    UsbErrors = FALSE
SPECIFICATION Spec
CHECK_DEADLOCK FALSE
INVARIANTS
    SuccessMeansWritten
