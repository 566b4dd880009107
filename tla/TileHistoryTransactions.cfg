CONSTANTS
    Tile = {t1, t2}
    Storage = {s1, s2, s3, s4}
    NoStorage = none
    None = none
    Value = {0, 1}
    ClearValue = 0
    LayerContent = {l0, l1}
    Budget = {2}
    MaxRevision = 4
    MaxEpoch = 1
    MaxGeneration = 3
    MaxLayerRevision = 2
    MaxSequence = 3
    Activities = {"transactions", "layers", "outside"}
SYMMETRY Symmetry
SPECIFICATION Spec
INVARIANT NoLostUpdate
PROPERTY ImplementsEditHistory
