SPECIFICATION FairSpec
CONSTANTS
    Messages = {d, c, n}
    Briefs = {}
    Confirmed = {}
    Comments = {c}
    Notice = n
    MaxRows = 2
    MaxReg = 1
    LeaseLimit = 0
    Window = 0
    Senders = {s1}
    Drain = Drain
    Launcher = Launcher
    NoProc = NoProc
    Limit = 2
    InboxClient = FALSE
    LatePaste = FALSE
    MaxSends = 2
    MaxLaunches = 1
    MaxCrashes = 0
PROPERTIES QueueServed
