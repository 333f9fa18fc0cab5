CONSTANTS
    N = 2
    Debounce <- MCDebounceEqual
    ActiveHigh <- MCActiveHigh
SPECIFICATION Spec
INVARIANTS
    WakeupPending
PROPERTIES
    DeadlinesServiced
