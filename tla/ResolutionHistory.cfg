CONSTANTS
    Set = {s1, s2}
    NoSet = none
    History = {h1, h2}
    NoHistory = none
    Size = {small, large}
    Value = {0, 1}
    ClearValue = 0
    Sparse = sparse
    TileBudget = 1
    Ceiling = {2}
    MaxEdits = 3
    MaxShelf = 2
    EndsFirst = TRUE
SYMMETRY Symmetry
SPECIFICATION Spec
INVARIANTS HistoryFitsImage ChargedExact
PROPERTY CopiesStayApart
