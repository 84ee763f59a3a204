CONSTANTS
    User = {uA, uB}
    SerialUser = {uA}
    Request = {r1, r2}
    MaxSessions = 3
    Tenant = {oA, oB}
    Role = {auditor, viewer}
    Scim = {r1, r2}
    Grade = {admin, member}
    Allowed = {admin}
    Approval = {p1, p2}
    Approver = {uA, uB}
    Decider = {r1, r2}
SPECIFICATION AccountsSpec
SYMMETRY Symmetry
INVARIANTS TypeOK RotatedAreRevoked RotationsBounded TrailTellsDirectory AdmissionsJustified AcceptanceHasCause LastDecisionStands
PROPERTY LinesSpec
