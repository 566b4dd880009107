CONSTANTS
    Tile = {t1}
    Storage = {s1, s2}
    NoStorage = none
    Pixel = {p1}
    Value = {0, 1}
    ClearValue = 0
    MaxRevision = 2
    MaxEpoch = 1
    MaxGeneration = 2
    Token = {k1}
    PinBudget = 1
    ForgetsOnDisable = TRUE
SYMMETRY Symmetry
SPECIFICATION DeltaSpec
INVARIANT DeltaAnswerable
