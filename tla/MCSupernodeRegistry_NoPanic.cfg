SPECIFICATION Spec
CONSTANTS
    h = h
    Macs = {a}
    Communities = {h}
    CommunityOf <- OneCommunity
    Sockets <- AnySockets
    Addrs = {x}
    Conns = {}
    VIPs = {v}
    Workers = {p, q}
    Cleaners = {r}
    Cobjs = {c1}
    Eobjs = {e1, e2, e3}
    NoAddr = NoAddr
    NoConn = NoConn
    None = None
    Free = Free
SYMMETRY SymAll
INVARIANT NoPanic
