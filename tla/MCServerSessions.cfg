SPECIFICATION Spec
CONSTANTS
    c1 = c1
    c2 = c2
    c3 = c3
    ann = ann
    tok = tok
    pwA = pwA
    pwB = pwB
    NoToken = NoToken
    Nobody = Nobody
    Nothing = Nothing
    MaxConnections = 2
    AuthRequired = TRUE
    Connections <- SessionConnections
    Sends <- SessionSends
    Users <- SessionUsers
    Tokens <- SessionTokens
    Passwords <- SessionPasswords
    AssignedRoles <- SessionRoles
CHECK_DEADLOCK FALSE
INVARIANTS
    SessionsMatchAccounts
    BackendSeesGrantedOnly
