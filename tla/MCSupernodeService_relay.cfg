SPECIFICATION FairSpec
CONSTANTS
    a = a
    b = b
    c = c
    x = x
    y = y
    z = z
    t = t
    u = u
    i = i
    Macs = {a, b, c}
    CommunityOf <- MCCommunityOf
    Addrs = {x, y, z}
    Transports = {t, u}
    Conns = {i}
    ConnOf <- MCConnOf
    Workers = {p, q}
    Cap = 1
    MaxObjs = 2
    Refused = {c}
    Plans <- MCPlans
    None = None
INVARIANTS Relayed RouteCurrent FastPathKnows DrainedWhenComplete
 
