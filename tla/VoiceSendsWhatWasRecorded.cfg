SPECIFICATION Spec
CHECK_DEADLOCK FALSE
CONSTANTS
    Receivers = {alice, bob}
    MaxPresses = 2
    MaxSeconds = 2
INVARIANTS
    SendsWhatWasRecorded
