CONSTANTS
    MaxRevision = 2
    Faults = {"write", "directory"}
SPECIFICATION AutosaveSpec
PROPERTY PublishedNeverGoesBack
