SPECIFICATION Spec
CONSTANTS
    Prompts = 2
    Token = {x, y}
    Level = {1, 2}
    MaxPositions = 2
    MaxRestarts = 1
    ProbMax = 1
    MassMax = 0
SYMMETRY Interchangeable
INVARIANT ColdIsWarned
INVARIANT ComparedAreOfThisRun
INVARIANT VerdictIsEarned
