CONSTANTS
    Catalog <- OneControl
    Modes = {"temporal"}
    Faults <- AllFaults
    MaxAttempts = 2
    MaxMarkAttempts = 1
    MaxRenames = 1
SPECIFICATION ExportSpec
INVARIANTS ExportTypeOK PackageHasReport PackedBytesMatch
PROPERTY PackagesAreSnapshots
