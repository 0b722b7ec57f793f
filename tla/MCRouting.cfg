CONSTANTS
    NoModel = NoModel
    Pool <- MCPool
    MaxCandidates = 4
SPECIFICATION Decisions
INVARIANT ChoiceFollowsPipeline
PROPERTY ChoiceIsStable
CHECK_DEADLOCK FALSE
