SPECIFICATION Spec
CONSTANTS
    db = db
    api = api
    openai = openai
    local = local
    llm = llm
    v1 = v1
    dots = dots
    Name = {db, api}
    CapCount = 2
    BasePort = 2
    MaxPort = 4
    Provider = {openai, local}
    Segment = {llm, openai, v1, dots, Empty}
    Unsafe = {dots}
    Empty = Empty
    None = None
    Initial <- Files
    Payload <- Payloads
    Setups <- SetupsOf
    Real = Real
    Virtual = Virtual
    Absent = Absent
    Found = {db, api}
    Run = {r1, r2}
    NoDiscover = {r2}
    Overlap = FALSE
    MaxEdits = 2
    GatewayPort = {1, 2}
    World = World
    Busy <- MCBusy
INVARIANTS
    TypeOK
    Loadable
    OwnGateway
    EnvVirtual
    OutputHides
    BaseUrlServed
PROPERTIES
    PortsStable
    PortsApart
    Settled
CHECK_DEADLOCK FALSE
