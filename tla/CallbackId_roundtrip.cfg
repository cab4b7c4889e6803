SPECIFICATION Spec
CHECK_DEADLOCK FALSE
CONSTANTS
    SampleBytes = {0, 1, 200}
    SampleTexts <- MCSampleTexts
    Other = Other
INVARIANTS
    RoundTrip
