SPECIFICATION Spec
CONSTANTS
    ann = ann
    bob = bob
    Opened = Opened
    Older = Older
    Newer = Newer
    Start = Start
    Submit = Submit
    Stories = {{Older}}
    Audience <- OpenedForBoth
    Intakes = {t1}
    Job = Job
    NoProc = NoProc
    NoOne = NoOne
    MaxMishaps = 1
INVARIANT ParentsChecked
CHECK_DEADLOCK FALSE
