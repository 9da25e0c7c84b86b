CONSTANTS
    Seconds <- MCSeconds
    None = None
SPECIFICATION Spec
INVARIANTS NonPositiveExpiryNeverExpires
CHECK_DEADLOCK FALSE
