SPECIFICATION Spec
CONSTANTS
    Kind = {occlusion, normal}
    TangentKind = {normal}
    Frame = {frame}
    NoFrame = NoFrame
    Settings = {1, 2}
    FirstSettings = 1
    frame = frame
    Mesh <- MCMesh
    MaxRequests = 2
    MaxEdits = 2
INVARIANTS ActiveIsNewest NothingUndoneIsBound
PROPERTY ResultsBindInOrder
