------------------------- MODULE MCSupernodeService -------------------------
(* Small instances of SupernodeService. *)
EXTENDS SupernodeService, TLC

CONSTANTS a, b, c, x, y, z, t, u, i

\* c is alone in its community, which has no address left.
MCCommunityOf == (a :> "h") @@ (b :> "h") @@ (c :> "g")
MCConnOf == [s \in Transports |-> i]

Packet(n, kind, src, dst, from) ==
    [n |-> n, kind |-> kind, src |-> src, dst |-> dst, from |-> from]

Plan(at, send, may) == [members |-> at, packets |-> send, faults |-> may]

AtX == a :> x
AtY == b :> y
AtZ == c :> z
AB == AtX @@ AtY
ABC == AB @@ AtZ

MCPlans == {
    \* two workers, a full channel, a third community member, and the end
    Plan(ABC, {Packet(1, "data", a, b, x), Packet(1, "data", b, a, y),
               Packet(2, "data", b, c, y), Packet(1, "data", c, b, z)}, {"signal"}),
    \* an edge joins over a connection that stalls or breaks
    Plan(AtY, {Packet(1, "register", a, None, t), Packet(1, "data", b, a, y),
               Packet(2, "data", b, a, y)}, {"stall"}),
    Plan(AtY, {Packet(1, "register", a, None, t), Packet(2, "request", a, None, t),
               Packet(1, "data", b, a, y)}, {"break"}),
    \* from UDP to a connection, and from a connection to UDP
    Plan(AtY, {Packet(1, "register", a, None, x), Packet(2, "register", a, None, t),
               Packet(3, "heartbeat", a, None, t), Packet(1, "ping", b, a, y)}, {}),
    Plan(AtY, {Packet(1, "register", a, None, t), Packet(2, "register", a, None, x),
               Packet(3, "request", a, None, x), Packet(1, "data", b, a, y)}, {}),
    \* a new address, and the fast path
    Plan(AB, {Packet(1, "heartbeat", a, None, z), Packet(2, "vfuze", a, b, z),
              Packet(3, "register", a, None, z), Packet(1, "vfuze", b, a, y)}, {}),
    Plan(AtY, {Packet(1, "register", a, None, t), Packet(2, "vfuze", a, b, t),
               Packet(1, "vfuze", b, a, y)}, {"break"}),
    \* leaving and coming back while others send
    Plan(AtY, {Packet(1, "register", a, None, t), Packet(2, "unregister", a, None, t),
               Packet(3, "register", a, None, t), Packet(1, "data", b, a, y)}, {}),
    Plan(AB, {Packet(1, "unregister", a, None, x), Packet(2, "register", a, None, x),
              Packet(1, "data", b, a, y), Packet(2, "ping", b, a, y)}, {}),
    \* a connection ID that is used again, by the same edge or by another one
    Plan(AtY, {Packet(1, "register", a, None, t), Packet(2, "register", a, None, u),
               Packet(1, "data", b, a, y)}, {"break"}),
    Plan(AtY, {Packet(1, "register", a, None, t), Packet(1, "secret", c, None, u),
               Packet(1, "data", b, a, y)}, {"break"}),
    \* edges that are not registered
    Plan(AtX, {Packet(1, "data", c, a, z), Packet(2, "secret", c, None, z),
               Packet(3, "register", c, None, z), Packet(1, "data", b, a, t)}, {"signal"}) }

=============================================================================
