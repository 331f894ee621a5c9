SPECIFICATION Spec
CONSTANTS
    a = a
    b = b
    NoId = NoId
    NoAlias = NoAlias
    Alias = {a, b}
    Assigned = {a, b}
    Required = {}
    Rotation = {c0, c1, c2}
    Elsewhere = {c2}
    Initial = {c0}
    OfB = {}
    AliasOf <- MCAliasOf
    CliRun = {}
    McpRequest = {m1}
    Gateway = {}
    KeyCreate = {k1}
    KeyRevoke = {v1}
    Mortal = {c1, k1}
    Overlap = FALSE
    Ttl = 1
    MaxClock = 1
CHECK_DEADLOCK FALSE
INVARIANTS
    AliasBacked
    RotatedAway
    RunRevoked
    CreatedKeyKept
PROPERTIES
    CustodySpec
