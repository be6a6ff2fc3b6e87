SPECIFICATION Spec
CONSTANTS
    Issues = {1, 2}
    Offerers = {monitor}
    Monitor = monitor
    Job = job
    MaxMishaps = 1
    MaxConvs = 2
INVARIANTS OneAtATime ShownOnce
CHECK_DEADLOCK FALSE
PROPERTY Offered
