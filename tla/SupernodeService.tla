-------------------------- MODULE SupernodeService --------------------------
(***************************************************************************)
(* How the supernode receives, relays and stops: the UDP receive loop, the  *)
(* channel and the workers of Listen, one goroutine per WebSocket           *)
(* connection, the pooled packet buffers, ProcessPacket with its handlers,  *)
(* and the two ways the process ends.  A handler's table update is one step *)
(* here (SupernodeRegistry takes it apart); its sends are one step per      *)
(* target, because any of them may wait for a WebSocket peer.               *)
(***************************************************************************)
EXTENDS Naturals, Sequences, FiniteSets

CONSTANTS
    Macs,          \* edges
    CommunityOf,   \* the community of each edge
    Addrs,         \* UDP addresses of edges
    Transports,    \* WSSTransport objects: one per WebSocket connection
    Conns,         \* connection IDs ("wss-" and the remote address)
    ConnOf,        \* the ID of each transport; a later connection may repeat it
    Workers,       \* the goroutines that range over packetChan
    Cap,           \* capacity of packetChan
    MaxObjs,       \* Edge objects per MAC address
    Refused,       \* edges for which their community has no address left
    Plans,         \* what the edges may send, and what may go wrong
    None

\* A packet of edge src: its number, what it is, whom it is for and the socket
\* it is sent from.  No edge sends to itself.
Kinds == {"data", "ping", "vfuze", "request", "secret", "register", "heartbeat",
          "unregister"}
Packets == {k \in [n : Nat, kind : Kinds, src : Macs, dst : Macs \cup {None},
                   from : Addrs \cup Transports] :
              k.kind \in {"data", "ping", "vfuze"} => k.dst \in Macs \ {k.src}}

\* The address and the connection ID of an Edge object.
EdgeRecords == [addr : Addrs \cup {None}, wss : Conns \cup {None}]

ASSUME ServiceAssumption ==
    /\ Cap \in Nat \ {0} /\ MaxObjs \in Nat \ {0}
    /\ IsFiniteSet(Workers) /\ IsFiniteSet(Transports)
    /\ Workers # {} /\ Workers \cap Transports = {}
    /\ Addrs \cap Transports = {} /\ Addrs \cap Conns = {}
    /\ ConnOf \in [Transports -> Conns]
    /\ None \notin Macs /\ None \notin Addrs \cup Transports \cup Conns
    /\ None \notin EdgeRecords
    /\ Plans \subseteq [members : UNION {[M -> Addrs] : M \in SUBSET Macs},
                       packets : SUBSET Packets,
                       faults : SUBSET {"stall", "break", "signal"}]

VARIABLES
    edge,           \* the Edge objects
    edges,          \* the current object of each member of a community, or 0
    edgesBySocket,  \* the index of the fast path
    wssConnections, \* ID -> transport
    conn,           \* what became of each connection
    reader,         \* the receive loop
    packetChan,     \* buffers waiting for a worker
    buffer,         \* the packet in each buffer
    pool,           \* the buffers of packetBufPool
    proc,           \* workers and connection goroutines
    shutdown,       \* "no", "closed" (shutdownCh) or "complete"
    process,        \* "running", "exit" or "crash"
    \* the edges, and history
    plan,           \* packets that are still to be sent, and faults that may come
    home,           \* the socket an edge uses now
    used,           \* the socket keys each edge has ever used
    refreshed,      \* the socket of the last registration or heartbeat handled
    registered,     \* the socket of the last registration handled
    upgraded,       \* transports that were ever in wssConnections
    received,       \* packets read, and ...
    handled,        \* ... packets whose handler returned
    delivered,      \* what reached which edge
    twice           \* the sockets of each delivery that was a second one

tables == <<edge, edges, edgesBySocket>>
clients == <<plan, home, used>>
history == <<refreshed, registered>>
io == <<reader, packetChan, buffer, pool>>
ends == <<shutdown, process>>
vars == <<tables, wssConnections, conn, io, proc, ends, clients, history,
          upgraded, received, handled, delivered, twice>>

Procs == Workers \cup Transports
Objs == Macs \X (1..MaxObjs)
Buffers == 1..(Cardinality(Procs) + Cap + 1)

\* The net.Addr of a socket: the address itself, or a wssAddr.
Key(s) == IF s \in Transports THEN ConnOf[s] ELSE s

Idle == [at |-> "idle", buf |-> 0, msg |-> None, answer |-> None,
         todo |-> {}, fallback |-> FALSE, as |-> "raw"]

\* plan.members have registered by UDP before; the supernode is idle.
Init ==
    /\ plan \in Plans
    /\ home = [m \in Macs |-> IF m \in DOMAIN plan.members THEN plan.members[m] ELSE None]
    /\ used = [m \in Macs |-> {home[m]} \ {None}]
    /\ refreshed = home
    /\ registered = home
    /\ edge = [o \in Objs |-> IF o[2] = 1 /\ home[o[1]] # None
                              THEN [addr |-> home[o[1]], wss |-> None] ELSE None]
    /\ edges = [m \in Macs |-> IF home[m] = None THEN 0 ELSE 1]
    /\ edgesBySocket = [k \in Addrs \cup Conns \cup {None} |->
                          IF \E m \in Macs : k # None /\ home[m] = k
                          THEN CHOOSE m \in Macs : home[m] = k ELSE None]
    /\ wssConnections = [c \in Conns |-> None]
    /\ conn = [t \in Transports |-> "new"]
    /\ reader = [at |-> "top", buf |-> 0]
    /\ packetChan = <<>>
    /\ buffer = [b \in Buffers |-> None]
    /\ pool = Buffers
    /\ proc = [p \in Procs |-> Idle]
    /\ shutdown = "no"
    /\ process = "running"
    /\ upgraded = {}
    /\ received = {}
    /\ handled = {}
    /\ delivered = {}
    /\ twice = {}

-----------------------------------------------------------------------------
(* Receiving *)

\* Any buffer of the pool will do.
Get == CHOOSE b \in pool : TRUE

\* An edge sends packet k, its next one: it now listens on the socket it sends
\* from.
Sends(k) ==
    /\ \A j \in plan.packets : j.src = k.src => k.n <= j.n
    /\ plan' = [plan EXCEPT !.packets = @ \ {k}]
    /\ received' = received \cup {k}
    /\ home' = [home EXCEPT ![k.src] = k.from]
    /\ used' = [used EXCEPT ![k.src] = @ \cup {Key(k.from)}]

\* The receive loop looks at shutdownCh between two datagrams only.
ReaderTop ==
    /\ reader.at = "top"
    /\ reader' = [reader EXCEPT !.at = IF shutdown = "no" THEN "read" ELSE "ended"]
    /\ UNCHANGED <<tables, wssConnections, conn, packetChan, buffer, pool, proc,
                   ends, clients, history, upgraded, received, handled,
                   delivered, twice>>

ReadFromUDP(k) ==
    /\ reader.at = "read"
    /\ k.from \in Addrs
    /\ Sends(k)
    /\ buffer' = [buffer EXCEPT ![Get] = k]
    /\ pool' = pool \ {Get}
    /\ reader' = [at |-> "queue", buf |-> Get]
    /\ UNCHANGED <<tables, wssConnections, conn, packetChan, proc, ends, history,
                   upgraded, handled, delivered, twice>>

\* packetChan <- packetData waits while the channel is full.
ReaderQueues ==
    /\ reader.at = "queue"
    /\ Len(packetChan) < Cap
    /\ packetChan' = Append(packetChan, reader.buf)
    /\ reader' = [at |-> "top", buf |-> 0]
    /\ UNCHANGED <<tables, wssConnections, conn, buffer, pool, proc, ends, clients,
                   history, upgraded, received, handled, delivered, twice>>

Goto(p, to) == proc' = [proc EXCEPT ![p] = to]

\* Mutant of Take: the buffer goes back to the pool before the packet is
\* processed.
MutTake(p) ==
    /\ proc[p].at = "idle" /\ packetChan # <<>>
    /\ packetChan' = Tail(packetChan)
    /\ pool' = pool \cup {Head(packetChan)}
    /\ Goto(p, [Idle EXCEPT !.at = "got", !.buf = Head(packetChan)])
    /\ UNCHANGED <<tables, wssConnections, conn, reader, buffer, ends, clients,
                   history, upgraded, received, handled, delivered, twice>>

\* for pkt := range packetChan
Take(p) ==
    /\ proc[p].at = "idle" /\ packetChan # <<>>
    /\ packetChan' = Tail(packetChan)
    /\ Goto(p, [Idle EXCEPT !.at = "got", !.buf = Head(packetChan)])
    /\ UNCHANGED <<tables, wssConnections, conn, reader, buffer, pool, ends,
                   clients, history, upgraded, received, handled, delivered, twice>>

\* Mutant of WorkerEnds: the worker leaves as soon as shutdownCh is closed.
MutWorkerEnds(p) ==
    /\ proc[p].at = "idle" /\ shutdown = "closed"
    /\ Goto(p, [Idle EXCEPT !.at = "ended"])
    /\ UNCHANGED <<tables, wssConnections, conn, io, ends, clients, history,
                   upgraded, received, handled, delivered, twice>>

\* The range ends when the receive loop has closed packetChan and it is empty.
WorkerEnds(p) ==
    /\ proc[p].at = "idle" /\ packetChan = <<>> /\ reader.at = "ended"
    /\ Goto(p, [Idle EXCEPT !.at = "ended"])
    /\ UNCHANGED <<tables, wssConnections, conn, io, ends, clients, history,
                   upgraded, received, handled, delivered, twice>>

-----------------------------------------------------------------------------
(* WebSocket connections *)

\* SendStruct and WritePacket look into wssConnections without its mutex: the
\* runtime may end the process when the table is written meanwhile.
Unlocked == \E p \in Procs : proc[p].at = "send" /\ proc[p].answer # None

TableWrite(c, t) ==
    /\ wssConnections' = [wssConnections EXCEPT ![c] = t]
    /\ process' \in {"running"} \cup (IF Unlocked THEN {"crash"} ELSE {})

\* handleWSUpgrade and handleWSSUpgrade, for an edge that has packets to send.
\* The remote address of a connection that still works is not used again.
Upgrade(t) ==
    /\ conn[t] = "new" /\ \E k \in plan.packets : k.from = t
    /\ \A u \in Transports : ConnOf[u] = ConnOf[t] => conn[u] # "open"
    /\ conn' = [conn EXCEPT ![t] = "open"]
    /\ TableWrite(ConnOf[t], t)
    /\ Goto(t, [Idle EXCEPT !.at = "read"])
    /\ upgraded' = upgraded \cup {t}
    /\ UNCHANGED <<tables, io, shutdown, clients, history, received, handled,
                   delivered, twice>>

\* handleWSSConnection reads a message into a buffer of the pool.
ReadWSS(t, k) ==
    /\ proc[t].at = "read" /\ conn[t] \in {"open", "stuck"} /\ k.from = t
    /\ Sends(k)
    /\ buffer' = [buffer EXCEPT ![Get] = k]
    /\ pool' = pool \ {Get}
    /\ Goto(t, [Idle EXCEPT !.at = "got", !.buf = Get])
    /\ UNCHANGED <<tables, wssConnections, conn, reader, packetChan, ends, history,
                   upgraded, handled, delivered, twice>>

\* What an edge wanted to send over a connection that is gone is never sent.
Unsent(k) ==
    /\ k.from \in Transports /\ conn[k.from] \in {"broken", "closed"}
    /\ plan' = [plan EXCEPT !.packets = @ \ {k}]
    /\ UNCHANGED <<tables, wssConnections, conn, io, proc, ends, home, used, history,
                   upgraded, received, handled, delivered, twice>>

\* A read error: the transport is closed, then its ID is deleted.
ReadError(t) ==
    /\ proc[t].at = "read" /\ conn[t] = "broken"
    /\ conn' = [conn EXCEPT ![t] = "closed"]
    /\ Goto(t, [Idle EXCEPT !.at = "delete"])
    /\ UNCHANGED <<tables, wssConnections, io, ends, clients, history, upgraded,
                   received, handled, delivered, twice>>

DeleteConnection(t) ==
    /\ proc[t].at = "delete"
    /\ TableWrite(ConnOf[t], None)
    /\ Goto(t, [Idle EXCEPT !.at = "ended"])
    /\ UNCHANGED <<tables, conn, io, shutdown, clients, history, upgraded,
                   received, handled, delivered, twice>>

\* The peer stops reading, so that Write (which has no deadline) waits ...
Stall(t) ==
    /\ conn[t] = "open" /\ "stall" \in plan.faults
    /\ conn' = [conn EXCEPT ![t] = "stuck"]
    /\ UNCHANGED <<tables, wssConnections, io, proc, ends, clients, history,
                   upgraded, received, handled, delivered, twice>>

\* ... until TCP gives the connection up.
Break(t) ==
    /\ conn[t] = "stuck" \/ (conn[t] = "open" /\ "break" \in plan.faults)
    /\ conn' = [conn EXCEPT ![t] = "broken"]
    /\ UNCHANGED <<tables, wssConnections, io, proc, ends, clients, history,
                   upgraded, received, handled, delivered, twice>>

-----------------------------------------------------------------------------
(* ProcessPacket: a handler updates the tables, then sends an answer to one *)
(* address and a packet to each object of todo.                             *)

Known(m) == edges[m] # 0
Obj(m) == <<m, edges[m]>>

\* GetAllEdges of the community of m, but for m itself.
Others(m) == {Obj(n) : n \in {x \in Macs \ {m} : Known(x) /\ CommunityOf[x] = CommunityOf[m]}}

Replies(p, answer, todo, fallback, as) ==
    Goto(p, [proc[p] EXCEPT !.at = "send", !.msg = buffer[proc[p].buf],
             !.answer = answer, !.todo = todo, !.fallback = fallback, !.as = as])

\* An unknown sender is asked to register again, over UDP only.
Unknown(p, k) ==
    /\ k.kind \in {"data", "ping", "request", "unregister", "heartbeat"}
    /\ ~Known(k.src)
    /\ Replies(p, IF k.from \in Addrs THEN k.from ELSE None, {}, FALSE, "answer")
    /\ UNCHANGED <<tables, history>>

\* ForwardWithFallBack
HandleData(p, k) ==
    /\ k.kind = "data" /\ Known(k.src)
    /\ IF Known(k.dst) /\ CommunityOf[k.dst] = CommunityOf[k.src]
       THEN Replies(p, None, {Obj(k.dst)}, TRUE, "raw")
       ELSE Replies(p, None, Others(k.src), FALSE, "raw")
    /\ UNCHANGED <<tables, history>>

\* ForwardUnicast
HandlePing(p, k) ==
    /\ k.kind = "ping" /\ Known(k.src)
    /\ Replies(p, None, {Obj(m) : m \in {x \in {k.dst} :
                           Known(x) /\ CommunityOf[x] = CommunityOf[k.src]}}, FALSE, "raw")
    /\ UNCHANGED <<tables, history>>

\* The fast path knows the sender by its socket only.
HandleVFuze(p, k) ==
    /\ k.kind = "vfuze"
    /\ LET src == edgesBySocket[Key(k.from)] IN
       Replies(p, None, IF src # None /\ Known(k.dst) /\ CommunityOf[src] = CommunityOf[k.dst]
                        THEN {Obj(k.dst)} ELSE {}, FALSE, "raw")
    /\ UNCHANGED <<tables, history>>

\* The requests for the peer list, the leases and the full state: answered
\* over the connection of the edge if it ever had one.
HandleRequest(p, k) ==
    /\ k.kind = "request" /\ Known(k.src)
    /\ LET e == edge[Obj(k.src)] IN
       Replies(p, IF e.wss # None THEN e.wss ELSE e.addr, {}, FALSE, "answer")
    /\ UNCHANGED <<tables, history>>

HandleSNPublicSecret(p, k) ==
    /\ k.kind = "secret"
    /\ Replies(p, Key(k.from), {}, FALSE, "answer")
    /\ UNCHANGED <<tables, history>>

\* A new object, when the edge is not a member.
NewObj(m) == {o \in 1..MaxObjs : /\ edge[<<m, o>>] = None
                                 /\ \A i \in 1..(o - 1) : edge[<<m, i>>] # None}

\* EdgeUpdate keeps the address of an edge that registers over a connection,
\* handleRegister the connection of an edge that registers by UDP.
Updated(e, from) ==
    LET old == IF e = None THEN [addr |-> None, wss |-> None] ELSE e IN
    IF from \in Addrs THEN [old EXCEPT !.addr = from]
                      ELSE [old EXCEPT !.wss = ConnOf[from]]

\* Mutant of Indexed: the connection ID is not indexed.
MutIndexed(m, e) == [edgesBySocket EXCEPT ![e.addr] = m]

\* handleRegister indexes the edge by its UDP address (":0" without one) and
\* by its connection ID.
Indexed(m, e) == [k \in DOMAIN edgesBySocket |->
                    IF k = e.addr \/ (e.wss # None /\ k = e.wss) THEN m ELSE edgesBySocket[k]]

HandleRegister(p, k) ==
    /\ k.kind = "register" /\ (Known(k.src) \/ k.src \notin Refused)
    /\ \E o \in IF Known(k.src) THEN {edges[k.src]} ELSE NewObj(k.src) :
         LET e == Updated(edge[<<k.src, o>>], k.from) IN
         /\ edge' = [edge EXCEPT ![<<k.src, o>>] = e]
         /\ edges' = [edges EXCEPT ![k.src] = o]
         /\ edgesBySocket' = Indexed(k.src, e)
    /\ Replies(p, Key(k.from), Others(k.src), FALSE, "event")
    /\ refreshed' = [refreshed EXCEPT ![k.src] = k.from]
    /\ registered' = [registered EXCEPT ![k.src] = k.from]

\* No address is left in the pool of the community.
RegisterFails(p, k) ==
    /\ k.kind = "register" /\ ~Known(k.src) /\ k.src \in Refused
    /\ Replies(p, Key(k.from), {}, FALSE, "event")
    /\ UNCHANGED <<tables, history>>

\* Mutant of HandleHeartbeat: a new address is announced but not stored.
MutHandleHeartbeat(p, k) ==
    /\ k.kind = "heartbeat" /\ Known(k.src)
    /\ Replies(p, None, Others(k.src), FALSE, "event")
    /\ refreshed' = [refreshed EXCEPT ![k.src] = k.from]
    /\ UNCHANGED <<tables, registered>>

\* RefreshEdge stores the address of the heartbeat, none for a connection; a
\* change is announced.  edgesBySocket keeps the address of the registration.
HandleHeartbeat(p, k) ==
    /\ k.kind = "heartbeat" /\ Known(k.src)
    /\ LET addr == IF k.from \in Addrs THEN k.from ELSE None IN
       /\ edge' = [edge EXCEPT ![Obj(k.src)].addr = addr]
       /\ Replies(p, None, IF addr # edge[Obj(k.src)].addr THEN Others(k.src) ELSE {},
                  FALSE, "event")
    /\ refreshed' = [refreshed EXCEPT ![k.src] = k.from]
    /\ UNCHANGED <<edges, edgesBySocket, registered>>

\* Unregister and onEdgeUnregistered.
HandleUnregister(p, k) ==
    /\ k.kind = "unregister" /\ Known(k.src)
    /\ edges' = [edges EXCEPT ![k.src] = 0]
    /\ edgesBySocket' = [edgesBySocket EXCEPT ![edge[Obj(k.src)].addr] = None]
    /\ Replies(p, None, Others(k.src), FALSE, "event")
    /\ UNCHANGED <<edge, history>>

ProcessPacket(p) ==
    /\ proc[p].at = "got"
    /\ LET k == buffer[proc[p].buf] IN
       \/ Unknown(p, k)
       \/ HandleData(p, k)
       \/ HandlePing(p, k)
       \/ HandleVFuze(p, k)
       \/ HandleRequest(p, k)
       \/ HandleSNPublicSecret(p, k)
       \/ HandleRegister(p, k)
       \/ RegisterFails(p, k)
       \/ HandleHeartbeat(p, k)
       \/ HandleUnregister(p, k)
    /\ UNCHANGED <<wssConnections, conn, io, ends, clients, upgraded, received,
                   handled, delivered, twice>>

-----------------------------------------------------------------------------
(* Sending *)

\* What arrives at the edges behind socket s.
Deliver(p, s, as) ==
    LET new == {[pkt |-> proc[p].msg, as |-> as, to |-> m, key |-> Key(s),
                 raw |-> IF as = "raw" THEN buffer[proc[p].buf] ELSE proc[p].msg] :
                 m \in {n \in Macs : home[n] = s}}
    IN /\ delivered' = delivered \cup new
       /\ twice' = twice \cup {<<d.key, Key(s)>> : d \in {x \in delivered : \E n \in new :
                                   x.pkt = n.pkt /\ x.as = n.as /\ x.to = n.to}}

Lost == UNCHANGED <<delivered, twice>>

\* WSSTransport.Write: it waits for a peer that does not read, and may accept
\* what a broken connection will never deliver.
Written(p, t, as) ==
    \/ conn[t] = "open" /\ Deliver(p, t, as)
    \/ conn[t] = "broken" /\ Lost

WriteFails(t) == conn[t] \in {"broken", "closed"} /\ Lost

\* A packet to the address key: over the connection of that ID, or by UDP.
SentTo(p, key, as) ==
    IF key \in Conns
    THEN wssConnections[key] # None /\ Written(p, wssConnections[key], as)
    ELSE key # None /\ Deliver(p, key, as)

\* The ID is not in the table, Write fails, or the address is ":0".
NotSentTo(key) ==
    IF key \in Conns /\ wssConnections[key] # None
    THEN WriteFails(wssConnections[key])
    ELSE key \notin Addrs /\ Lost

\* SendStruct and WritePacket to one address; an error is only logged.
Answer(p) ==
    /\ proc[p].at = "send" /\ proc[p].answer # None
    /\ SentTo(p, proc[p].answer, "answer") \/ NotSentTo(proc[p].answer)
    /\ Goto(p, [proc[p] EXCEPT !.answer = None])
    /\ UNCHANGED <<tables, wssConnections, conn, io, ends, clients, history,
                   upgraded, received, handled>>

\* forwardPacket goes over the connection the edge registered with, if any.
Route(e) == IF e.wss # None THEN e.wss ELSE e.addr

\* forwardPacket to the next target.
Forward(p, o) ==
    /\ proc[p].at = "send" /\ proc[p].answer = None /\ o \in proc[p].todo
    /\ SentTo(p, Route(edge[o]), proc[p].as)
    /\ Goto(p, [proc[p] EXCEPT !.todo = @ \ {o}, !.fallback = FALSE])
    /\ UNCHANGED <<tables, wssConnections, conn, io, ends, clients, history,
                   upgraded, received, handled>>

\* Mutant of ForwardFails: the same target is tried again.
MutForwardFails(p, o) ==
    /\ proc[p].at = "send" /\ proc[p].answer = None /\ o \in proc[p].todo
    /\ NotSentTo(Route(edge[o]))
    /\ UNCHANGED <<tables, wssConnections, conn, io, ends, clients, history,
                   upgraded, received, handled, proc>>

\* It fails: ForwardWithFallBack broadcasts, the others go on.
ForwardFails(p, o) ==
    /\ proc[p].at = "send" /\ proc[p].answer = None /\ o \in proc[p].todo
    /\ NotSentTo(Route(edge[o]))
    /\ Goto(p, [proc[p] EXCEPT
                  !.todo = IF proc[p].fallback THEN Others(proc[p].msg.src) ELSE @ \ {o},
                  !.fallback = FALSE])
    /\ UNCHANGED <<tables, wssConnections, conn, io, ends, clients, history,
                   upgraded, received, handled>>

\* The handler has returned: packetBufPool.Put, and the next packet.
Done(p) ==
    /\ proc[p].at = "send" /\ proc[p].answer = None /\ proc[p].todo = {}
    /\ pool' = pool \cup {proc[p].buf}
    /\ handled' = handled \cup {proc[p].msg}
    /\ Goto(p, [Idle EXCEPT !.at = IF p \in Workers THEN "idle" ELSE "read"])
    /\ UNCHANGED <<tables, wssConnections, conn, reader, packetChan, buffer, ends,
                   clients, history, upgraded, received, delivered, twice>>

-----------------------------------------------------------------------------
(* The end of the process *)

\* A signal: Shutdown closes shutdownCh.
Signal ==
    /\ shutdown = "no" /\ "signal" \in plan.faults
    /\ shutdown' = "closed"
    /\ UNCHANGED <<tables, wssConnections, conn, io, proc, process, clients, history,
                   upgraded, received, handled, delivered, twice>>

\* shutdownWg.Wait returns, and "Shutdown complete" is logged.
ShutdownComplete ==
    /\ shutdown = "closed" /\ \A p \in Workers : proc[p].at = "ended"
    /\ shutdown' = "complete"
    /\ UNCHANGED <<tables, wssConnections, conn, io, proc, process, clients, history,
                   upgraded, received, handled, delivered, twice>>

\* os.Exit after Shutdown, or main, whose Listen returns as soon as shutdownCh
\* is closed.
Exit ==
    /\ shutdown # "no"
    /\ process' = "exit"
    /\ UNCHANGED <<tables, wssConnections, conn, io, proc, shutdown, clients, history,
                   upgraded, received, handled, delivered, twice>>

\* Nothing more happens in an ended process, nor in one that waits for packets.
Ended ==
    /\ process # "running" \/ (plan.packets = {} /\ received = handled)
    /\ UNCHANGED vars

Step(p) ==
    /\ process = "running"
    /\ \/ p \in Workers /\ (Take(p) \/ WorkerEnds(p))
       \/ p \in Transports /\ (ReadError(p) \/ DeleteConnection(p))
       \/ ProcessPacket(p)
       \/ Answer(p)
       \/ \E o \in proc[p].todo : Forward(p, o) \/ ForwardFails(p, o)
       \/ Done(p)

ReaderStep == process = "running" /\ (ReaderTop \/ ReaderQueues)

GiveUp(t) == process = "running" /\ Break(t)

Next ==
    \/ \E p \in Procs : Step(p)
    \/ ReaderStep
    \/ /\ process = "running"
       /\ \/ \E k \in plan.packets : ReadFromUDP(k)
          \/ \E t \in Transports : Upgrade(t) \/ Stall(t)
          \/ \E k \in plan.packets : Unsent(k)
          \/ \E t \in Transports : \E k \in plan.packets : ReadWSS(t, k)
          \/ Signal \/ ShutdownComplete \/ Exit
    \/ \E t \in Transports : GiveUp(t)
    \/ Ended

Spec == Init /\ [][Next]_vars

\* Goroutines that can run do run, and a peer that does not read is given up.
FairSpec ==
    /\ Spec
    /\ \A p \in Procs : WF_vars(Step(p))
    /\ WF_vars(ReaderStep)
    /\ \A t \in Transports : WF_vars(conn[t] = "stuck" /\ GiveUp(t))

-----------------------------------------------------------------------------
(* Properties *)

\* Only one edge has ever used this address or connection ID.
Own(key) == \A m, n \in Macs : key \in used[m] \cap used[n] => m = n

\* Pooled buffers, live Edge objects and the fallback never mix packets up: an
\* answer reaches the edge that asked; a relayed packet arrives as it was sent
\* and an event of the registry as it was made, at most once, at another edge
\* of the sender's community, and, for ForwardUnicast and handleVFuze, at the
\* destination only.  (An address or connection ID that passes from one edge to
\* another is still routed to; no edge is told apart by more than that.)
Relayed ==
    /\ \A keys \in twice : ~(Own(keys[1]) /\ Own(keys[2]))
    /\ \A d \in delivered : Own(d.key) /\ Own(Key(d.pkt.from)) =>
         /\ d.raw = d.pkt
         /\ d.as = "answer" => d.to = d.pkt.src
         /\ d.as # "answer" => /\ d.to # d.pkt.src
                               /\ CommunityOf[d.to] = CommunityOf[d.pkt.src]
         /\ d.as = "raw" /\ d.pkt.kind # "data" => d.to = d.pkt.dst

\* The transport or address that a packet to edge e goes to.
Target(e) == IF Route(e) \in Conns THEN wssConnections[Route(e)] ELSE Route(e)

\* No other connection of the same ID was ever accepted.
OnlyConnection(t) == \A u \in upgraded : ConnOf[u] = ConnOf[t] => u = t

\* Once a registration (or, by UDP, a heartbeat) from the socket an edge uses is
\* the last one handled, forwardPacket sends to that socket, whatever other handlers and connections
\* do.  Two cases are left out because the code does not handle them:
\* WSSConnID is never cleared, so an edge that comes back by UDP is still sent
\* to its connection; and a connection that ends deletes its ID even when a
\* later connection has stored itself there.
RouteCurrent ==
    \A m \in Macs :
      LET s == home[m]  e == edge[Obj(m)] IN
      /\ Known(m) /\ Own(Key(s))
      /\ IF s \in Addrs THEN refreshed[m] = s /\ e.wss = None
         ELSE registered[m] = s /\ conn[s] = "open" /\ OnlyConnection(s)
      => Target(e) = s

\* handleVFuze knows every member of a community by the socket its last
\* handled registration came from, connections included.
FastPathKnows ==
    \A m \in Macs :
      Known(m) /\ registered[m] = home[m] /\ Own(Key(home[m]))
        => edgesBySocket[Key(home[m])] = m

\* "Shutdown performs a clean shutdown of the supernode": when it completes,
\* the receive loop and the workers have ended, every datagram read was
\* processed, and every buffer but those of connections is back in the pool.
DrainedWhenComplete ==
    shutdown = "complete" =>
      /\ reader.at = "ended" /\ packetChan = <<>>
      /\ {k \in received : k.from \in Addrs} \subseteq handled
      /\ Buffers \subseteq pool \cup {proc[t].buf : t \in Transports}

\* A full channel, or handlers that wait for a WebSocket peer that does not
\* read, delay packets but never hold one for ever: again and again every packet
\* that was read has been processed, unless the process ends.
ReceivedIsHandled == []<>(received = handled \/ process # "running")

=============================================================================
