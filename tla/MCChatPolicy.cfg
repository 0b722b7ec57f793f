CONSTANTS
    r1 = r1
    Requests = {r1}
    Snapshots <- MCSnapshots
    ChatInputs <- MCInputs
    Labels <- MCLabels
    Chunks <- MCChunks
    Redactable <- MCRedactable
    Blocking <- MCBlocking
    RemoteTopK = 2
    StartupProvider = 1
    Unwritable = {}
    NoModel = "none"
    NoLabel = NoLabel
    Unclassified = Unclassified
    NoSnapshot = NoSnapshot
    NoInput = NoInput
    NoRoute = NoRoute
SPECIFICATION FairSpec
INVARIANTS
    TradeSecretStaysLocal
    NoSecretSent
    AllowedRemoteContextIsMinimal
PROPERTIES
    ControlsEgress
    EveryRequestEnds
