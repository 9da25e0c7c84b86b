CONSTANTS
    Seconds <- MCSeconds
    None = None
SPECIFICATION Spec
INVARIANTS NegativeExpiryRejected
CHECK_DEADLOCK FALSE
