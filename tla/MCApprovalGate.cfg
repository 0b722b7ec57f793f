CONSTANTS
    t1 = t1
    t2 = t2
    d1 = d1
    d2 = d2
    d3 = d3
    Tasks = {t1, t2}
    Decisions = {d1, d2, d3}
    NoTask = NoTask
    MaxRestarts = 1
SYMMETRY MCSymmetry
SPECIFICATION Spec
INVARIANTS
    PendingIsUndecided
    ResolvesWhatWasShown
    AnsweredIsRecorded
    LedgerInOrder
CHECK_DEADLOCK FALSE
