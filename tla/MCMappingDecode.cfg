CONSTANTS
    Seconds <- MCSeconds
    None = None
SPECIFICATION Spec
INVARIANTS TypeOK IndividualDecodesExactly ErrorNamesCause ReencodeRoundTrip ElisionPreservesDecoding
CHECK_DEADLOCK FALSE
