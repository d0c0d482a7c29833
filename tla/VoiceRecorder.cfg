SPECIFICATION Spec
CHECK_DEADLOCK FALSE
CONSTANTS
    Receivers = {alice, bob}
    MaxPresses = 3
    MaxSeconds = 3
INVARIANTS
    TypeOK
    StartsOnlyWhileHeld
    MicrophoneOff
    SendsOwnRecording
    AtMostOnce
