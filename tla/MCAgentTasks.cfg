CONSTANTS
    Tasks = {t1, t2}
    r1 = r1
    r2 = r2
    alias = alias
    Roots <- MCRoots
    Aliases <- MCAliases
    RootLists <- MCRootLists
    Workloads <- MCWorkloads
    Latencies = {2, 5}
    NoRoot = NoRoot
    Cut = Cut
SYMMETRY MCSymmetry
SPECIFICATION Spec
INVARIANTS
    TypeOK
    ReadsStayApproved
    MetricsAreObserved
    UndisturbedIsExact
