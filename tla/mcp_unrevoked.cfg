SPECIFICATION Spec
CONSTANTS
    a = a
    b = b
    NoId = NoId
    NoAlias = NoAlias
    Alias = {a, b}
    Assigned = {a, b}
    Required = {a, b}
    Rotation = {c0}
    Elsewhere = {}
    Initial = {c0}
    OfB = {}
    AliasOf <- MCAliasOf
    CliRun = {}
    McpRequest = {m1}
    Gateway = {}
    KeyCreate = {}
    KeyRevoke = {}
    Mortal = {}
    Overlap = FALSE
    Ttl = 1
    MaxClock = 1
CHECK_DEADLOCK FALSE
INVARIANTS
    McpGrantsRevoked
