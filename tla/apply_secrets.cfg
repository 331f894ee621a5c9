SPECIFICATION Spec
CONSTANTS
    env = env
    nested = nested
    code = code
    Path = {env, nested, code}
    Dotenv = {env, nested}
    Scanned = {env}
    ProtectWrite = {env}
    ByDefault = {env}
    Pruned = {}
    Text = {t}
    key = key
    url = url
    v = v
    Name = {key, url}
    Value = {v}
    Bound <- MCBound
    Denied = {key}
    Hidden = Hidden
    Link = Link
    None = None
    CopyRun = {c1}
    LinkRun = {l1}
    Keep = {c1}
    Apply = {a1}
    Project <- MCProject
    MaxEdits = 1
PROPERTIES
    RealKept
CHECK_DEADLOCK FALSE
