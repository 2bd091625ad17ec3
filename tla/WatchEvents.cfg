SPECIFICATION FairLoop
CONSTANTS
    NoFrame = NoFrame
    NoErr = NoErr
    NoID = NoID
    MaxEvent = 3
    MaxFaults = 2
    Undecodable = {2}
    IdlessFrames = FALSE
    reconnectBackoffMin = 1
    reconnectBackoffMax = 3
INVARIANTS
    TypeOK
    GoneIsLast
    CancelIsSilent
PROPERTIES
    IsFeed
    StepsBackOnReconnect
    Delivers
    Ends
CHECK_DEADLOCK FALSE
