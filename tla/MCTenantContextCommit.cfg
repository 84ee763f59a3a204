CONSTANTS
    c1 = c1
    c2 = c2
    a = a
    b = b
    user_a = user_a
    user_b = user_b
    token_b = token_b
    activity_a = activity_a
    Conn = {c1, c2}
    Org = {a, b}
    NoOrg = NoOrg
    Request = {user_a, user_b}
    OrgOf <- OfUsers
    Anonymous = {}
    Activity = {}
    Logged = {user_a, user_b}
SPECIFICATION Spec
INVARIANT TenantSurvivesCommit
