SPECIFICATION Spec
CONSTANTS
    Name = {1, 2}
    SecretName = {2}
    Alias = {a1, a2}
    AliasOf <- OneEach
    Initial <- OneLine
    Real = {x, y}
    None = None
    Import = {i1, i2}
    Restore = {r1}
    Uninstall = {r1}
    MaxEdits = 1
    MaxSecond = 1
    MaxKills = 1
    a1 = a1
    a2 = a2
SYMMETRY Symmetry
INVARIANTS
    TypeOK
    NoValueLost
    PlaceholderBacked
PROPERTIES
    RestoresTaken
CHECK_DEADLOCK FALSE
