CONSTANTS
    Upload = {u1, u2}
    Export = {e1, e2}
    Attached = {u1, u2}
    Infected = {u1}
    Scanning = TRUE
SPECIFICATION Spec
SYMMETRY Symmetry
INVARIANTS TypeOK OrphansStay NoInfectedDownload PackagesAccountForRows
CHECK_DEADLOCK FALSE
