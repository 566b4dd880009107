CONSTANTS
    Set = {s1}
    NoSet = none
    History = {h1}
    NoHistory = none
    Size = {small, large}
    Value = {0, 1, 2}
    ClearValue = 0
    Sparse = sparse
    TileBudget = 1
    Ceiling = {2}
    MaxEdits = 2
    MaxShelf = 2
    EndsFirst = FALSE
SYMMETRY Symmetry
SPECIFICATION Spec
INVARIANT StaleTransactionRefused
