SPECIFICATION FairSpec
CONSTANTS
    Messages = {o, d, n}
    Briefs = {}
    Confirmed = {o}
    Comments = {}
    Notice = n
    MaxRows = 1
    MaxReg = 1
    LeaseLimit = 0
    Window = 0
    Senders = {s1}
    Drain = Drain
    Launcher = Launcher
    NoProc = NoProc
    Limit = 2
    InboxClient = FALSE
    LatePaste = FALSE
    MaxSends = 1
    MaxLaunches = 1
    MaxCrashes = 1
PROPERTIES LockReleased LeaseEnds
