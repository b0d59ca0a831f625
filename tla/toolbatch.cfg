SPECIFICATION Spec
CONSTANTS
    Texts <- MCTexts
    CallBounds <- MCCallBounds
    ByteBounds <- MCByteBounds
    MaxTerms = 2
    Weight <- MCWeight
    Plans <- MCPlans
    Registrations <- MCRegistrations
    Configured <- MCConfigured
    Outcomes <- MCOutcomes
    Queries <- MCQueries
    MaxLimit = 3
    MaxRefusals = 1
    MaxRepeats = 1
    MaxAbandoned = 1
INVARIANTS
    HeldToTheLimit
    ReportTellsWhatRan
    OnlyOmittedRunsAgain
    SearchGivesTheBest
CHECK_DEADLOCK FALSE
