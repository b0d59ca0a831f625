SPECIFICATION FairSpec
CONSTANTS
    Callers = {c1, c2}
    Closers = {d1}
    Readers = {}
    Operations = {"request", "connect", "pin"}
    Credentials = {k1}
    Versions = {"discovery", "initialize"}
    DiscoveryVersions = {"discovery"}
    Pins = {NoVersion, "discovery"}
    Transport = "stdio"
    NoCaller = NoCaller
    NoCredential = NoCredential
    NoVersion = NoVersion
    UnknownVersion = UnknownVersion
    MaxGeneration = 2
    MaxAuthorization = 1
PROPERTIES
    EveryCallReturns
