CONSTANTS
    Tile = {t1}
    Storage = {s1, s2, s3, s4}
    NoStorage = none
    None = none
    Value = {0, 1}
    ClearValue = 0
    LayerContent = {l0}
    Budget = {2}
    MaxRevision = 4
    MaxEpoch = 1
    MaxGeneration = 4
    MaxLayerRevision = 0
    MaxSequence = 4
    Activities = {"steps", "evict", "reload failure"}
SYMMETRY Symmetry
SPECIFICATION Spec
INVARIANT RetainedBytesIntact
