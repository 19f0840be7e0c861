SPECIFICATION FairSpec
CONSTANTS
    Macs = {a}
    Objs = {o1, o2}
    Infos <- RoamingInfos
    MaxTTL = 2
    MaxInFlight = 1
    Relay = TRUE
    NilSock = nil
    NoPeer = NoPeer
    NoCheck = NoCheck
    Free = Free
    Supernode = SN
    s1 = s1
    s2 = s2
    v1 = v1
INVARIANTS PendingHasTTL DirectOnceAnswered BySocketSound
PROPERTY PunchingEnds
