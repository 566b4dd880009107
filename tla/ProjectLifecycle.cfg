CONSTANTS
    cpu = cpu
    Resource = {cpu}
    Temporary = cpu
    Allocation = {}
    Cache = {}
    Bytes <- MCBytes
    Residency <- MCResidency
    Holder = {h1}
    Request <- MCRequest
    Preview = {}
    Vacant = vacant
    MaxRevision = 2
    Faults = {"write", "directory", "crash", "power loss"}
SPECIFICATION Spec
INVARIANTS ReportedSurvives AcceptedAccounted DurableMeansDurable QuietAfterDurable
PROPERTIES GoesBackOnlyAfterFailure SnapshotsAreTaken FlushReturns QuiesceReachesDurable
