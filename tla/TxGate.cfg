\* The gate: every interleaving of the two tasks, millis() wrapping; pins are
\* released.
SPECIFICATION FairSpec
CONSTANTS
    HALF = 3
    TX_HOLD = 1
    SLEEP_AFTER = 1
    WDT = 1
    LOW_SAMPLES = 2
    WakeHolds <- MCOneHold
INVARIANTS
    WakeExact
    WriteKeepsPin
PROPERTIES
    AttachOnlyAwakeOrWake
    PinReleased
