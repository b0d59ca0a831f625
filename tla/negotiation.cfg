\* Three exchanges with every peer, pinned or not, meeting up to two failures,
\* while the credential changes once and the server is replaced once.
CONSTANTS
    Absent = Absent
    IllTyped = IllTyped
    Twice = Twice
    Malformed = Malformed
    Peers <- MCPeers
    Pins = {Absent, "2026-07-28", "2025-11-25"}
    MaxExchanges = 3
    MaxFailures = 2
    MaxTokens = 2
    MaxSessions = 2
    MaxReplacements = 1
SPECIFICATION Spec
INVARIANTS
    FailureIsNotAnEra
    SessionsKeptApart
    SharedVersionIsFound
CHECK_DEADLOCK FALSE
