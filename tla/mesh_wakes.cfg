SPECIFICATION FairSpec
CONSTANTS
    Sender = {s1}
    Replier = {r1}
    Reader = {}
    Requester = {}
    Resolver = {}
    Registrar = {n1}
    Configurer = {c1}
    Watcher = {w1}
    Waker = {}
    Launcher = {}
    Once = {}
    ForceLaunch = {}
    Msg = {s1, r1}
    Approval = {}
    Agent = {g, h}
    Team = {t1}
    Denied <- DeniedSome
    Overlap = TRUE
    AgentOf <- OfG
    None = None
    g = g
    h = h
INVARIANTS
    RepliesReturn
PROPERTIES
    MessageWakes
CHECK_DEADLOCK FALSE
