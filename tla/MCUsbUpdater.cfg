CONSTANTS
    W <- MCW
    ImageShv <- MCImageShv
    TargShv <- MCTargShv
    RwOffset = "RW_B"
    RoOffset = "RO_A"
    UpstartMode = FALSE
    PostReset = FALSE
    ProtocolVersion = 6
    NumBlocks <- MCNumBlocksLong
    MaxRetries = 2
    Timeouts = FALSE
    TargetFails = TRUE
    UsbErrors = TRUE
SPECIFICATION Spec
CHECK_DEADLOCK FALSE
INVARIANTS
    SuccessMeansWritten
PROPERTIES
    UpdateRefinement
