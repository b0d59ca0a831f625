SPECIFICATION FairSpec
CONSTANTS
    Closers = {d1}
    Window = 1
    MaxUnaccounted = 2
    MaxRequests = 3
    MaxChannels = 2
    MaxWire = 2
    MaxNow = 1
INVARIANTS
    NoMoreThanOpen
    HungServerGivenUp
PROPERTIES
    AnswerIsItsOwn
    ContextEndsExchange
CHECK_DEADLOCK FALSE
