CONSTANTS
    W <- MCW
SPECIFICATION Spec
INVARIANTS
    NewerMatchesReference
