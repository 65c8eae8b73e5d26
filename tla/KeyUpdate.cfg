CONSTANTS
    Unconfirmed = {}
    Exchanged = TRUE
    MaxPackets = 7
    MaxUpdates = 2
SPECIFICATION Spec
INVARIANTS EpochExact NoPingPong KeysMeet NoFalseAlarm
CHECK_DEADLOCK FALSE
