SPECIFICATION Spec
CONSTANTS
    Host = {api, old, inner}
    Port = {std, alt}
    Forbidden = {}
    Private = {inner}
    Name = {NAME, SPARE}
    Alias = {a}
    Key = {k1, k2}
    NameOf <- Names
    Fits = {a, k1}
    InitialConfig <- Start
    InitialHosts <- StoredHosts
    Editor <- Commands
    Gateway = {g}
    McpRequest = {m}
    Overlap = FALSE
    MaxRequests = 1
    MaxEdits = 2
    None = None
    api = api
    old = old
    inner = inner
    std = std
    alt = alt
    NAME = NAME
    SPARE = SPARE
    a = a
    k1 = k1
    k2 = k2
INVARIANTS
    TypeOK
    SecretsWhereAllowed
    
    RemovalHolds
    AllOrNothing
CHECK_DEADLOCK FALSE
