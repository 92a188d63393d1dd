SPECIFICATION Spec
CONSTANTS
    Prompts = 3
    Top1Levels <- Levels
    Top1Min = 99
    Url = {u1, u2}
SYMMETRY Interchangeable
CHECK_DEADLOCK FALSE
INVARIANT TypeOK
INVARIANT VerdictMatchesEvidence
INVARIANT CoverageIsExact
INVARIANT ExitZeroCertifies
INVARIANT OutageIsNotFailure
INVARIANT FileAgreesWithExit
