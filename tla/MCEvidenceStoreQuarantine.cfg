CONSTANTS
    Upload = {u1, u2}
    Export = {e1}
    Attached = {u1}
    Infected = {u1}
    Scanning = TRUE
SPECIFICATION Spec
INVARIANT QuarantineHolds
CHECK_DEADLOCK FALSE
