CONSTANTS
    User = {uA}
    SerialUser = {}
    Request = {r1, r2}
    MaxSessions = 3
SPECIFICATION Spec
INVARIANT RotatedOnce
