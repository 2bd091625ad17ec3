SPECIFICATION Spec
CONSTANTS
    NoFrame = NoFrame
    NoErr = NoErr
    NoID = NoID
    MaxEvent = 3
    MaxFaults = 2
    Undecodable = {}
    IdlessFrames = TRUE
    reconnectBackoffMin = 1
    reconnectBackoffMax = 3
INVARIANTS
    NothingMissed
CHECK_DEADLOCK FALSE
