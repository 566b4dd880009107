CONSTANTS
    cpu = cpu
    temp = temp
    Resource = {cpu, temp}
    Temporary = temp
    Allocation = {1, 2, 3}
    Cache = {1, 2}
    Bytes <- MCBytes
    Residency <- MCResidency
    Holder = {h1, h2}
    Request <- MCRequest
    Preview <- MCPreview
    Vacant = vacant
SYMMETRY Symmetry
SPECIFICATION LedgerSpec
INVARIANTS ReservedExact AdmissionFits RefusalJustified
PROPERTY EvictionsNeeded
