SPECIFICATION Spec
CONSTANTS
    Prompts = 1
    Fillers = 1
    Token = {x}
    Level = {1}
    MaxPositions = 1
INVARIANT ComparesWithTheGate
