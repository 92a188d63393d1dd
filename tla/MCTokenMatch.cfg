SPECIFICATION Spec
CONSTANTS
    Token = {t1, t2}
    Level = {1, 3}
    NaN = NaN
    One = 2
    K = 2
    MaxRow = 3
    MaxRows = 2
SYMMETRY Interchangeable
INVARIANT TypeOK
INVARIANT WorstIsExact
INVARIANT AgreementScoresZero
INVARIANT WithinUnit
