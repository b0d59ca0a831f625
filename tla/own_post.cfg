\* A server refuses the initialized notification with a JSON-RPC error, as the
\* binding allows, and the next request reads that error as its own reply.
CONSTANTS
    Absent = Absent
    IllTyped = IllTyped
    Twice = Twice
    Malformed = Malformed
    Peers <- MCPeers
    Pins = {Absent, "2026-07-28", "2025-11-25"}
    MaxExchanges = 2
    MaxFailures = 1
    MaxTokens = 2
    MaxSessions = 2
    MaxReplacements = 1
SPECIFICATION Spec
INVARIANT ReplyOnItsOwnPost
CHECK_DEADLOCK FALSE
