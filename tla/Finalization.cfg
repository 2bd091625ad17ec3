SPECIFICATION FairCall
CONSTANTS
    NoFrame = NoFrame
    NoErr = NoErr
    Verdicts = {committed, rejected}
    NoVerdict = NoVerdict
    Failed = Failed
    MaxNoise = 2
INVARIANTS
    TypeOK
    GateIsSafe
    FrameNotLost
    PollNotRaced
PROPERTIES
    KeepsPromise
    ReaderStops
    ReturnsOnceDecided
    ReturnsByDeadline
CHECK_DEADLOCK FALSE
