CONSTANTS
    Unconfirmed = {"client"}
    Exchanged = FALSE
    MaxPackets = 5
    MaxUpdates = 1
SPECIFICATION Spec
INVARIANT NoFalseAlarm
CHECK_DEADLOCK FALSE
