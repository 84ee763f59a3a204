CONSTANTS
    c1 = c1
    c2 = c2
    a = a
    b = b
    user_a = user_a
    user_b = user_b
    token_b = token_b
    activity_a = activity_a
    Conn = {c1, c2}
    Org = {a, b}
    NoOrg = NoOrg
    Request = {user_a, user_b, token_b, activity_a}
    OrgOf <- OfAll
    Anonymous = {token_b}
    Activity = {activity_a}
    Logged = {user_a}
SYMMETRY Symmetry
SPECIFICATION Spec
INVARIANTS TypeOK NoForeignWrites ChangesAreLogged RefusalsNeedAnotherOrg TenantsLeftByCommits
PROPERTY PoolSpec
