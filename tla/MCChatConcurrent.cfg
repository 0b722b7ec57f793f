CONSTANTS
    r1 = r1
    r2 = r2
    Requests = {r1, r2}
    Snapshots <- MCTwoSnapshots
    ChatInputs <- MCFewInputs
    Labels <- MCOneLabel
    Chunks <- MCOneChunk
    Redactable <- MCRedactable
    Blocking <- MCBlocking
    RemoteTopK = 2
    StartupProvider = 1
    Unwritable = {r2}
    NoModel = "none"
    NoLabel = NoLabel
    Unclassified = Unclassified
    NoSnapshot = NoSnapshot
    NoInput = NoInput
    NoRoute = NoRoute
SPECIFICATION Spec
INVARIANTS
    SentWithinOwnSnapshot
    LedgerIsTruthful
    StayedIsRecorded
