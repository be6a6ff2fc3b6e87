SPECIFICATION Spec
CONSTANTS
    Messages = {b, d, n}
    Briefs = {b}
    Confirmed = {}
    Comments = {}
    Notice = n
    MaxRows = 2
    MaxReg = 2
    LeaseLimit = 0
    Window = 0
    Senders = {s1}
    Drain = Drain
    Launcher = Launcher
    NoProc = NoProc
    Limit = 2
    InboxClient = FALSE
    LatePaste = TRUE
    MaxSends = 1
    MaxLaunches = 2
    MaxCrashes = 1
INVARIANTS BriefGoesFirst BriefOfThisLaunch RightRegistration DirectNeverLost
