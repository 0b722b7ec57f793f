CONSTANTS
    Commands = {c1, c2, c3, c4}
    Ids = {s1, s2}
    Contents = {x, y}
    Enabled = {s1}
    MaxRunning = 2
    Cut = Cut
    Absent = Absent
SPECIFICATION Spec
SYMMETRY Symmetry
INVARIANT CopiesFollowEntries
PROPERTY KeepsRegistry
CHECK_DEADLOCK FALSE
