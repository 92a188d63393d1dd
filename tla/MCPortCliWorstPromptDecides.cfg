SPECIFICATION Spec
CONSTANTS
    Prompts = 2
    Top1Levels <- Levels
    Top1Min = 99
    Url = {u1, u2}
SYMMETRY Interchangeable
CHECK_DEADLOCK FALSE
INVARIANT WorstPromptDecides
