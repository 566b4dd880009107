CONSTANTS
    Tile = {t1, t2}
    Storage = {s1, s2, s3, s4}
    NoStorage = none
    None = none
    Value = {0, 1}
    ClearValue = 0
    LayerContent = {l0}
    Budget = {2, 3}
    MaxRevision = 4
    MaxEpoch = 2
    MaxGeneration = 3
    MaxLayerRevision = 0
    MaxSequence = 4
    Activities = {"steps", "outside", "budget", "evict"}
SYMMETRY Symmetry
SPECIFICATION Spec
INVARIANTS BudgetExact AcceptedRestoreIsExact CaptureSeesEveryChange RetainedBytesIntact
PROPERTY ImplementsEditHistory
