CONSTANTS
    Tile = {t1, t2}
    Storage = {s1, s2, s3, s4, s5}
    NoStorage = none
    None = none
    Value = {0, 1}
    ClearValue = 0
    LayerContent = {l0}
    Budget = {2}
    MaxRevision = 4
    MaxEpoch = 2
    MaxGeneration = 4
    MaxLayerRevision = 0
    MaxSequence = 4
    Activities = {"transactions", "evict", "reload failure", "clear"}
SYMMETRY Symmetry
SPECIFICATION Spec
INVARIANT NoLostUpdate
