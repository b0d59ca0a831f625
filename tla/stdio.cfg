SPECIFICATION FairSpec
CONSTANTS
    User = user
    Closers = {d1}
    Sizes = {2, 3}
    Lines = 1
    MaxHeld = 2
    PipeRoom = 1
    MaxProcesses = 2
    MaxFrames = 2
CHECK_DEADLOCK FALSE
INVARIANTS
    StoppedOnce
PROPERTIES
    ReceivedInOrder
    ReadersEnd
    ServersStopped
    WaitEndsWithAFrame
