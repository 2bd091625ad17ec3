SPECIFICATION FairSpec
CONSTANTS
    Layouts <- MCLayouts
    MaxFrames = 2
    Empty = Empty
    Cut = Cut
    NoFrame = NoFrame
    NoErr = NoErr
INVARIANTS
    FramesOK
PROPERTIES
    IsStream
    Arrives
CHECK_DEADLOCK FALSE
