SPECIFICATION MCSpec
CONSTANTS
    Messages = {b, o, c, n}
    Briefs = {b}
    Confirmed = {o}
    Comments = {c}
    Notice = n
    MaxRows = 3
    MaxReg = 2
    LeaseLimit = 0
    Window = 0
INVARIANTS OneActiveRow
PROPERTIES NeverBackToDelivery UncertainOnlyResolved FullWindowAfterHold ExpiryLeavesNotice
