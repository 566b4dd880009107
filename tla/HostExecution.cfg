SPECIFICATION Spec
CONSTANTS
    Id = {albedo, normal}
    Generation = {g1, g2}
    None = None
    MaxResources = 3
    MaxRevision = 2
    MaxToken = 3
SYMMETRY VersionSymmetry
INVARIANTS HoldsExact SoleWriter EvidenceRestoresCommitted
PROPERTY ImplementsPublication
