SPECIFICATION Spec
CONSTANTS
    self = self
    npx = npx
    peer = peer
    reaper = reaper
    nobody = nobody
    c1 = c1
    c2 = c2
    Self = self
    Npx = npx
    Peer = peer
    Reaper = reaper
    Nobody = nobody
    Pool <- MCPool
    Quit = "quit"
    Stops <- MCStops
    MaxRounds = 2
    MaxSignals = 2
    MaxLeaves = 2
    MaxFailures = 1
INVARIANTS
    OnlyTheRunsProcesses
    NothingStartedOutlives
    ResultTellsTheStop
CONSTRAINT Scenarios
SYMMETRY MCPoolSymmetry
CHECK_DEADLOCK FALSE
