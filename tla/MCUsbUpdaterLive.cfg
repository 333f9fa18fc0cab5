CONSTANTS
    W <- MCW
    ImageShv <- MCImageShv
    TargShv <- MCTargShv
    RwOffset = "RW_B"
    RoOffset = "RO_A"
    UpstartMode = FALSE
    PostReset = FALSE
    ProtocolVersion = 5
    NumBlocks <- MCNumBlocks
    MaxRetries = 2
    Timeouts = TRUE
    TargetFails = TRUE
    UsbErrors = TRUE
SPECIFICATION Spec
CHECK_DEADLOCK FALSE
INVARIANTS
    TypeOK
PROPERTIES
    HostTerminates
    AdvanceAcknowledged
