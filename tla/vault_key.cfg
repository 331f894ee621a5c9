SPECIFICATION Spec
CONSTANTS
    Putter = {p1, p2, p3}
    Getter = {g1}
    Cleaner = {c1}
    NoKey = NoKey
    NoFile = NoFile
    EmptyKey = EmptyKey
    Overlap = TRUE
INVARIANTS
    TypeOK
    OneKey
CHECK_DEADLOCK FALSE
