\* A client sends every POST, under any session id it holds, to three instances
\* of which two share a supplied session key, and every message as a line to a
\* fourth that serves stdio.
CONSTANTS
    Absent = Absent
    IllTyped = IllTyped
    Twice = Twice
    Malformed = Malformed
    NoKey = NoKey
    Forged = Forged
    Ids = {"id"}
    MetadataVersions = {"2026-07-28"}
    Tools = {"tool"}
    Resources = {"page", "hidden"}
    Prompts = {"prompt"}
    Completable = {"prompt"}
    Completions = TRUE
    CustomMethods = {"custom/list"}
    ServerHint <- MCServerHint
    MethodHint <- MCMethodHint
    ResourceHint <- MCResourceHint
    Clients = {"browser"}
    a = a
    b = b
    c = c
    d = d
    Instances = {a, b, c, d}
    Piped = {d}
    Posts <- MCPosts
    Writes <- MCWrites
    OwnCodes <- MCOwnCodes
    Supplied <- MCSupplied
    Shared = Shared
    Short = Short
    ShortKeys = {Short}
    MaxDraws = 5
    MaxSessions = 2
    MaxFrames = 1
SYMMETRY Alike
SPECIFICATION Spec
INVARIANTS
    HeadersDescribeWhatRuns
    SessionsStayInTheirRevision
    RepliesAreReadable
    FailuresAreNotCached
