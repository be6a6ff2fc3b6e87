SPECIFICATION Spec
CONSTANTS
    ann = ann
    bob = bob
    Opened = Opened
    Older = Older
    Newer = Newer
    Start = Start
    Submit = Submit
    Stories <- EachStory
    Audience <- OpenedForBoth
    Intakes = {t1}
    Job = Job
    NoProc = NoProc
    NoOne = NoOne
    MaxMishaps = 1
INVARIANTS NothingDropped RepeatedOnlyWhenCutOff
PROPERTIES NoLateStart PlanResumed
CHECK_DEADLOCK FALSE
