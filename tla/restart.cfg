SPECIFICATION Spec
CONSTANTS
    Wanted <- MCWanted
    MaxTalks = 5
    MaxMishaps = 2
INVARIANTS OnlyTheAccepted ClaimsItsOwn OncePerConversation ContinuationKept
PROPERTIES RestartEnds
CHECK_DEADLOCK FALSE
