CONSTANTS
    DefaultRcba <- MCDefaultRcba
    TscValues <- MCTscValues
    InitCfg <- MCInitCfg
SPECIFICATION Spec
\* The model ends when bootblock_southbridge_init returns.
CHECK_DEADLOCK FALSE
INVARIANTS
    SouthbridgeInitDone
