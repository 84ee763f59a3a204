CONSTANTS
    Catalog <- TwoControls
    Modes = {"temporal"}
    Faults <- TimeoutOnly
    MaxAttempts = 1
    MaxMarkAttempts = 1
    MaxRenames = 0
SPECIFICATION Spec
PROPERTY TerminalIsFinal
