SPECIFICATION Spec
CONSTANTS
    h = h
    Macs = {a, b}
    Communities = {h}
    CommunityOf <- OneCommunity
    Sockets <- AnySockets
    Addrs = {x}
    Conns = {}
    VIPs = {v, w}
    Workers = {p, q}
    Cleaners = {q}
    Cobjs = {c1, c2}
    Eobjs = {e1, e2, e3}
    NoAddr = NoAddr
    NoConn = NoConn
    None = None
    Free = Free
SYMMETRY SymAll
INVARIANTS CachedInfosExact TablesAgree IndexedAtUnregister
 
