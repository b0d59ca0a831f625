SPECIFICATION Spec
SYMMETRY Symmetry
CONSTANTS
    Callers = {c1, c2}
    Closers = {d1}
    Readers = {r1}
    Operations = {"request", "advertised", "pin"}
    Credentials = {k1, k2}
    Versions = {"discovery", "initialize"}
    DiscoveryVersions = {"discovery"}
    Pins = {"initialize", UnknownVersion}
    Transport = "http"
    NoCaller = NoCaller
    NoCredential = NoCredential
    NoVersion = NoVersion
    UnknownVersion = UnknownVersion
    MaxGeneration = 3
    MaxAuthorization = 2
INVARIANTS
    ContextsDoNotMix
    CursorStaysInContext
    FrameFitsHandshake
    PinHolds
    ExecutedAtMostOnce
    ShownToItsOwner
PROPERTIES
    ImplementsExchanges
