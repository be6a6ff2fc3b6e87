SPECIFICATION Spec
CONSTANTS
    Lines = {a, m, n}
    High = {a}
    Hooks = {h1}
    Poll = Poll
    Drain = Drain
    NoProc = NoProc
    MaxId = 2
    BatchLimit = 2
    Limit = 2
    MaxPolls = 2
    MaxCrashes = 1
SYMMETRY SameEvents
INVARIANTS BatchArrivesOnce NotedEventIsKept EventInOneBatch FilesOfTheirBatch
