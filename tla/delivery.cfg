SPECIFICATION Spec
CONSTANTS
    Messages = {o, d, c, n}
    Briefs = {}
    Confirmed = {o}
    Comments = {c}
    Notice = n
    MaxRows = 2
    MaxReg = 1
    LeaseLimit = 0
    Window = 0
    Senders = {s1}
    Drain = Drain
    Launcher = Launcher
    NoProc = NoProc
    Limit = 2
    InboxClient = TRUE
    LatePaste = FALSE
    MaxSends = 1
    MaxLaunches = 1
    MaxCrashes = 1
INVARIANTS NoPasteOverUncertain NotPastedOnceShown ConfirmedPastedOnce RevokedNeverPasted RepeatsOnlyWhenCutOff
PROPERTIES KeepsContract
