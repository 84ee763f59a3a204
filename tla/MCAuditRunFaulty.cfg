CONSTANTS
    Catalog <- TwoControls
    Modes = {"inline", "temporal"}
    Faults <- AllFaults
    MaxAttempts = 2
    MaxMarkAttempts = 2
    MaxRenames = 1
SPECIFICATION Spec
INVARIANTS TypeOK CompletedRunHasReport FindingsMatchResults OutcomesRecorded TerminalRecordsAgree ReportRowsMatchObjects
PROPERTIES WaiversSurvive LifecycleSpec WorkflowWindsDown RunEnds WorkflowCloses
