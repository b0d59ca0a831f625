SPECIFICATION Spec
SYMMETRY Symmetry
CONSTRAINT Scenarios
CONSTANTS
    Callers = {c1, c2}
    Readers = {r1}
    Credentials = {k1, k2}
    Kinds = {"whole", "capped", "empty", "call"}
    Pages = 2
    Lifetimes = {0, 1}
    Transport = "http"
    NoCaller = NoCaller
    NoCredential = NoCredential
    MaxGeneration = 2
    MaxAuthorization = 2
    MaxRevision = 1
    MaxNow = 1
INVARIANTS
    MirroredOverItsConnection
    AnnouncedOutdates
    ListingOfOneCaller
    ExcludedShownInItsContext
PROPERTIES
    KeptWhileFresh
