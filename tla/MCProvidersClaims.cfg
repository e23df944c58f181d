SPECIFICATION Spec
CONSTANTS
    p1 = p1
    p2 = p2
    m1 = m1
    m2 = m2
    h1 = h1
    h2 = h2
    c1 = c1
    c2 = c2
    None = None
    Main = Main
    Provs = {p1, p2}
    Seeds = {p1}
    Models = {m1, m2}
    TypeOf <- MCTypeOf
    PrefixOf <- MCPrefixOf
    EnvModel = m1
    Blind = {m2}
    Handlers = {h1, h2}
    Clients = {c1, c2}
    WithImages = {c2}
    Direct = {}
    ForeignKeys = FALSE
    MaxFailures = 2
    MaxOps = 2
    MaxCalls = 2
CHECK_DEADLOCK FALSE

\* One claim at a time:
INVARIANT RoleIsExclusive
\* INVARIANT EnabledIsRegistered
\* PROPERTY ReloadsEnd
