CONSTANTS
    c1 = c1
    c2 = c2
    Commands = {c1, c2}
    Workloads <- MCWorkloads
    Providers <- MCProviders
    NoProvider = ""
    Credentialed <- MCCredentialed
    DefaultConfig <- MCDefaultConfig
    FirstConfig <- MCFirstConfig
    Nobody = Nobody
SPECIFICATION FairSpec
INVARIANTS
    AckedIsServed
    AlwaysServable
PROPERTIES
    VersionNeverGoesBack
    EveryRefreshEnds
