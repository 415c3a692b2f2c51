SPECIFICATION Spec
CONSTANTS
    c1 = c1
    c2 = c2
    c3 = c3
    ann = ann
    tok = tok
    pwA = pwA
    pwB = pwB
    NoToken = NoToken
    Nobody = Nobody
    Nothing = Nothing
    MaxConnections = 2
    AuthRequired = FALSE
    Connections <- AnonymousConnections
    Sends <- AnonymousSends
    Users = {}
    Tokens = {}
    Passwords = {}
    AssignedRoles = {}
CHECK_DEADLOCK FALSE
INVARIANTS
    CounterBoundsWorkers
    RefusedDidNothing
PROPERTIES
    ShutdownEnds
    ConnectionsAreSettled
