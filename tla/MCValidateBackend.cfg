SPECIFICATION Spec
CONSTANT MaxPositions = 2
INVARIANT VerdictFitsServer
