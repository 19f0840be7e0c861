SPECIFICATION Spec
CONSTANTS
    Macs = {a}
    Objs = {o1, o2}
    Infos <- MovingInfos
    MaxTTL = 2
    MaxInFlight = 2
    Relay = FALSE
    NilSock = nil
    NoPeer = NoPeer
    NoCheck = NoCheck
    Free = Free
    Supernode = SN
    s1 = s1
    s2 = s2
    v1 = v1
PROPERTY StalePongIgnored
