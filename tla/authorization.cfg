\* Two flows of two browsers and two callbacks, while the resource comes to
\* declare another authorization server and one request fails.
CONSTANTS
    Flows = {f1, f2}
    Visits = {v1, v2}
    Browsers = {b1, b2}
    Servers = {A, B}
    Origin = A
    Home = A
    NoServer = NoServer
    NoFlow = NoFlow
    Configurations <- MCConfigurations
    Offers <- MCOffers
    Kinds = {"authorize", "refresh", "credentials"}
    Resources <- MCResources
    DiscoveryTTL = 1
    RegistrationTTL = 2
    PendingLifetime = 1
    MaxNow = 1
    MaxFailures = 1
    MaxMoves = 1
SPECIFICATION Spec
SYMMETRY Interchangeable
CHECK_DEADLOCK FALSE
INVARIANTS
    CredentialsStayWithTheirServer
    CallbackCompletesItsOwnFlow
    ResourceDecides
PROPERTIES
    RecordKeptWhileUsable
