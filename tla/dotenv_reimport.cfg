SPECIFICATION Spec
CONSTANTS
    Name = {1, 2}
    SecretName = {1, 2}
    Alias = {a1, a2}
    AliasOf <- OneEach
    Initial <- BothLines
    Real = {x, y}
    None = None
    Import = {i1, i2}
    Restore = {}
    Uninstall = {}
    MaxEdits = 0
    MaxSecond = 0
    MaxKills = 0
    a1 = a1
    a2 = a2
INVARIANTS
    VaultHoldsReal
CHECK_DEADLOCK FALSE
