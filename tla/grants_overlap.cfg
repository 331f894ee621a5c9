SPECIFICATION FairSpec
CONSTANTS
    a = a
    b = b
    NoId = NoId
    NoAlias = NoAlias
    Alias = {a, b}
    Assigned = {a, b}
    Required = {b}
    Rotation = {c0, c1, d1}
    Elsewhere = {}
    Initial = {c0}
    OfB = {d1}
    AliasOf <- MCAliasOf
    CliRun = {r1}
    McpRequest = {}
    Gateway = {g1}
    KeyCreate = {}
    KeyRevoke = {}
    Mortal = {r1}
    Overlap = TRUE
    Ttl = 1
    MaxClock = 2
CHECK_DEADLOCK FALSE
INVARIANTS
    TypeOK
    OwnSecretOnly
PROPERTIES
    NeverRenewed
    RevocationEnds
