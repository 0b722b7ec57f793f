CONSTANTS
    b1 = b1
    b2 = b2
    Rebuilds = {b1, b2}
    Queries = {q1}
    Roots = {"/a"}
    c1 = c1
    c2 = c2
    Chunks = {c1, c2}
    Dims = {8, 768}
    NoDims = 0
    Nobody = Nobody
    TopK = 1
SPECIFICATION FairSpec
INVARIANTS
    IndexIsWhole
    RunsAreTruthful
    OneSearchIsEnough
PROPERTIES
    KeepsPublication
    BuiltEnds
CHECK_DEADLOCK FALSE
