SPECIFICATION Spec
CONSTANTS
    Requests = {a, b}
    a = a
    b = b
    NoOne = NoOne
    LateTakeover = FALSE
    Scenes <- MCScenes
INVARIANTS InItsTurn ReportIsTrue ConfirmedTakenOnce ReceiptKept
PROPERTIES NoOfferAfterReset SteerSettled
