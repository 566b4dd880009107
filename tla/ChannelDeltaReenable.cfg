CONSTANTS
    Tile = {t1}
    Storage = {s1, s2}
    NoStorage = none
    Pixel = {p1}
    Value = {0, 1}
    ClearValue = 0
    MaxRevision = 3
    MaxEpoch = 1
    MaxGeneration = 3
    Token = {k1}
    PinBudget = 1
    ForgetsOnDisable = FALSE
SYMMETRY Symmetry
SPECIFICATION DeltaSpec
INVARIANT AdmittedDeltaCorrect
