SPECIFICATION Spec
CONSTANTS
    Sender = {s1}
    Replier = {r1, r2}
    Reader = {}
    Requester = {q1}
    Resolver = {v1}
    Registrar = {}
    Configurer = {}
    Watcher = {w1}
    Waker = {}
    Launcher = {}
    Once = {w1}
    ForceLaunch = {}
    Msg = {s1, r1, r2}
    Approval = {q1}
    Agent = {g, h}
    Team = {}
    Denied <- DeniedNone
    Overlap = FALSE
    AgentOf <- OfG
    None = None
    g = g
    h = h
INVARIANTS
    TypeOK
    SentIsStored
    ThreadsRooted
PROPERTIES
    BoardSpec
CHECK_DEADLOCK FALSE
