SPECIFICATION Spec
CONSTANTS
    Names <- TwoNames
    Priority <- DefaultPriority
    MaxLines = 3
    Reloads = 1
INVARIANT AutoPicksFirst
INVARIANT GivingUpIsHonest
INVARIANT FailuresAreAttributed
INVARIANT RetriedOnlyUnanswered
INVARIANT StreamIsExact
INVARIANT GatheredFromAll
PROPERTY RequestEnds
