CONSTANTS
    MaxRank = 3
    MaxBudget = 90
    MaxText = 4
    MaxLines = 6
    MaxChars = 5
    MaxItems = 2
    RuleActions <- MCActions
    Results = {1, 2, 3}
    Reference <- MCReference
    Text <- MCText
    Unit = 60
    DefaultLines = 2
    MarkLength = 2
    DefaultFiles = 1
    DefaultDiagnostics = 2
    DefaultChars = 4
SPECIFICATION Spec
INVARIANTS
    RedactionIsSound
    ChunksHoldTheFile
    SnippetShowsMatch
    PackageKeepsBudget
    FusionIsFaithful
    ContextIsTheBest
CHECK_DEADLOCK FALSE
