SPECIFICATION Spec
CONSTANTS
    User = user
    Closers = {}
    Sizes <- FrameSizes
    Lines = 1
    MaxHeld = 2
    PipeRoom = 1
    MaxProcesses = 1
    MaxFrames = 3
CHECK_DEADLOCK FALSE
INVARIANTS
    EndIsNoticed
