-------------------------- MODULE SupernodeRegistry --------------------------
(***************************************************************************)
(* The supernode's tables (pkg/supernode): the communities and their       *)
(* edges, the indexes edgesByMAC and edgesBySocket of the fast path, the   *)
(* cached edge informations, the P2P informations and the WSS connections. *)
(*                                                                         *)
(* Messages are handled by eight workers and by one goroutine per WSS      *)
(* connection; stale edges are removed by cleanupRoutine.  Each of them is *)
(* a process here, and each step of a process is what the code does under  *)
(* one lock.  Between two steps other processes run.                       *)
(*                                                                         *)
(* An edge's MAC address is computed from its machine ID and the name of   *)
(* its community (ValidateEdgeClaimedMACAddr), so a MAC address belongs to *)
(* one community.  Community and Edge are objects: a Community that is     *)
(* replaced in the table, or an Edge that was removed from its community,  *)
(* may still be used by a process or by an index.                          *)
(***************************************************************************)
EXTENDS Naturals, FiniteSets

CONSTANTS
    Macs,         \* MAC addresses
    Communities,  \* community hashes
    CommunityOf,  \* MAC address -> community hash
    Addrs,        \* UDP addresses of edges
    Conns,        \* IDs of WSS connections
    Sockets,      \* MAC address -> the addresses and connections it may use
    VIPs,         \* the addresses of the pool, which all communities share
    Workers,      \* the workers and the goroutines of WSS connections
    Cleaners,     \* the goroutine of cleanupRoutine
    Cobjs, Eobjs, \* addresses of Community and Edge objects
    NoAddr,       \* the UDP address of an edge on WSS (":0")
    NoConn,       \* the empty WSSConnID
    None,         \* nil, or an absent entry
    Free          \* an object that is not allocated

VARIABLES
    communities,     \* hash -> Community or None
    edges,           \* Community -> (MAC -> Edge or None)
    p2pInfos,        \* Community -> MACs with known P2P informations
    edge,            \* Edge object -> its fields or Free
    edgesByMAC,      \* MAC -> Edge or None
    edgesBySocket,   \* UDP address or connection ID -> MAC of an Edge or None
    edgeCachedInfos, \* MAC -> "none", "registered", "offline"
    wssConnections,  \* open connections
    leases,          \* the pool: MAC -> virtual IP or None; survives restarts
    task,            \* process -> what it is doing
    replaced,        \* history: an entry of communities was overwritten
    overlapped,      \* history: MACs that two handlers worked on at a time
    panicked         \* a goroutine dereferenced nil and the process ended

vars == <<communities, edges, p2pInfos, edge, edgesByMAC, edgesBySocket,
          edgeCachedInfos, wssConnections, leases, task,
          replaced, overlapped, panicked>>

Procs == Workers \cup Cleaners
Keys == Addrs \cup {NoAddr} \cup Conns
NoEdges == [m \in Macs |-> None]

Edge == [mac: Macs, addr: Addrs \cup {NoAddr}, wss: Conns \cup {NoConn},
         vip: VIPs, fresh: BOOLEAN]

ASSUME SupernodeRegistryAssumption ==
    /\ CommunityOf \in [Macs -> Communities]
    /\ Sockets \in [Macs -> SUBSET (Addrs \cup Conns)]
    /\ None \notin Cobjs \cup Eobjs \cup Macs \cup VIPs
    /\ Free \notin Edge
    /\ NoAddr \notin Addrs \cup Conns
    /\ NoConn \notin Conns
    /\ Addrs \cap Conns = {}

\* A process is idle, or inside a handler for MAC address mac with a message
\* from address from, a Community cm, an Edge obj and, in CleanupStaleEdges,
\* the stale edges it collected.
Idle == [pc |-> "idle", mac |-> None, from |-> None, cm |-> None,
         obj |-> None, todo |-> {}]

Init ==
    /\ communities = [h \in Communities |-> None]
    /\ edges = [c \in Cobjs |-> NoEdges]
    /\ p2pInfos = [c \in Cobjs |-> {}]
    /\ edge = [o \in Eobjs |-> Free]
    /\ edgesByMAC = [m \in Macs |-> None]
    /\ edgesBySocket = [k \in Keys |-> None]
    /\ edgeCachedInfos = [m \in Macs |-> "none"]
    /\ wssConnections = {}
    /\ leases = [m \in Macs |-> None]
    /\ task = [p \in Procs |-> Idle]
    /\ replaced = FALSE
    /\ overlapped = {}
    /\ panicked = FALSE

-----------------------------------------------------------------------------
(* Objects: what is reachable stays allocated *)

LiveCobjs ==
    {communities[h] : h \in Communities} \cup {task[p].cm : p \in Procs}
      \cup (UNION {{t[1] : t \in task[p].todo} : p \in Procs})

LiveEobjs ==
    (UNION {{edges[c][m] : m \in Macs} : c \in Cobjs})
      \cup {edgesByMAC[m] : m \in Macs} \cup {task[p].obj : p \in Procs}

\* The new contents of the objects, without those that became garbage.
Store(newEdges, newInfos, newEdge) ==
    /\ edges' = [c \in Cobjs |-> IF c \in LiveCobjs' THEN newEdges[c] ELSE NoEdges]
    /\ p2pInfos' = [c \in Cobjs |-> IF c \in LiveCobjs' THEN newInfos[c] ELSE {}]
    /\ edge' = [o \in Eobjs |-> IF o \in LiveEobjs' THEN newEdge[o] ELSE Free]

\* A process that works on MAC address m, or is going to.
Busy(t, m) == t.pc # "idle" /\ (t.mac = m \/ \E x \in t.todo : x[2] = m)

Goto(p, t) ==
    /\ task' = [task EXCEPT ![p] = t]
    /\ overlapped' = overlapped \cup
         {m \in Macs : Busy(t, m) /\ \E q \in Procs \ {p} : Busy(task[q], m)}

\* addrToIP and addrToPort: only UDP messages carry an address.
PublicAddr(from) == IF from \in Addrs THEN from ELSE NoAddr

\* Mutant of SetEdgeCachedInfo: an existing entry is not overwritten.
SetEdgeCachedInfoOnce(m, info) ==
    edgeCachedInfos' = [edgeCachedInfos EXCEPT ![m] = IF @ = "none" THEN info ELSE @]

SetEdgeCachedInfo(m, info) ==
    edgeCachedInfos' = [edgeCachedInfos EXCEPT ![m] = info]

\* GetCommunityForEdge: the community must exist and know the edge.
Known(m) == LET c == communities[CommunityOf[m]] IN c # None /\ edges[c][m] # None

-----------------------------------------------------------------------------
(* handleRegisterMessage *)

\* RegisterCommunity reads the table under the read lock.
RegisterStart(p, m, from) ==
    /\ task[p].pc = "idle"
    /\ LET c == communities[CommunityOf[m]] IN
       Goto(p, [Idle EXCEPT !.pc = IF c = None THEN "create" ELSE "update",
                            !.mac = m, !.from = from, !.cm = c])
    /\ UNCHANGED <<communities, edges, p2pInfos, edge, edgesByMAC, edgesBySocket,
                   edgeCachedInfos, wssConnections, leases, replaced, panicked>>

\* RegisterCommunity creates the community under the write lock.  It tests the
\* value it read before, not the table.
CreateCommunity(p) ==
    /\ task[p].pc = "create"
    /\ \E c \in Cobjs \ LiveCobjs :
         /\ communities' = [communities EXCEPT ![CommunityOf[task[p].mac]] = c]
         /\ Goto(p, [task[p] EXCEPT !.pc = "update", !.cm = c])
    /\ replaced' = (replaced \/ communities[CommunityOf[task[p].mac]] # None)
    /\ UNCHANGED <<edgesByMAC, edgesBySocket, edgeCachedInfos, wssConnections,
                   leases, panicked>>
    /\ Store(edges, p2pInfos, edge)

\* The pool gives a MAC address the lease it has, or a free address.
RequestIP(m) ==
    IF leases[m] # None THEN {leases[m]} ELSE VIPs \ {leases[n] : n \in Macs}

\* Community.EdgeUpdate.
EdgeUpdate(p) ==
    /\ task[p].pc = "update"
    /\ UNCHANGED <<communities, edgesBySocket, wssConnections, replaced, panicked>>
    /\ LET m == task[p].mac
           c == task[p].cm
           o == edges[c][m]
           addr == PublicAddr(task[p].from)
       IN \/ \* a known edge
             /\ o # None
             /\ Goto(p, [task[p] EXCEPT !.pc = "index", !.obj = o])
             /\ UNCHANGED <<edgesByMAC, edgeCachedInfos, leases>>
             /\ Store(edges, p2pInfos,
                      [edge EXCEPT ![o].addr = IF addr = NoAddr THEN @ ELSE addr,
                                   ![o].fresh = TRUE])
          \/ \* a new edge
             /\ o = None
             /\ \E n \in Eobjs \ LiveEobjs, vip \in RequestIP(m) :
                  /\ leases' = [leases EXCEPT ![m] = vip]
                  /\ SetEdgeCachedInfo(m, "registered")
                  /\ Goto(p, [task[p] EXCEPT !.pc = "index", !.obj = n])
                  /\ UNCHANGED edgesByMAC
                  /\ Store([edges EXCEPT ![c][m] = n], p2pInfos,
                           [edge EXCEPT ![n] = [mac |-> m, addr |-> addr,
                              wss |-> NoConn, vip |-> vip, fresh |-> TRUE]])
          \/ \* the pool is exhausted: the registration is refused
             /\ o = None
             /\ RequestIP(m) = {}
             /\ Goto(p, Idle)
             /\ UNCHANGED <<edgesByMAC, edgeCachedInfos, leases>>
             /\ Store(edges, p2pInfos, edge)

\* Mutant of IndexEdge: the edge does not enter edgesByMAC.
IndexEdgeSocketOnly(p) ==
    /\ task[p].pc = "index"
    /\ LET addr == edge[task[p].obj].addr IN
       edgesBySocket' = [edgesBySocket EXCEPT ![addr] = task[p].mac]
    /\ Goto(p, Idle)
    /\ UNCHANGED <<communities, edgesByMAC, edgeCachedInfos, wssConnections, leases,
                   replaced, panicked>>
    /\ Store(edges, p2pInfos, edge)

\* The edge gets its WSSConnID, and enters the indexes under edgeMu.
IndexEdge(p) ==
    /\ task[p].pc = "index"
    /\ LET m == task[p].mac
           o == task[p].obj
           wss == IF task[p].from \in Conns THEN task[p].from ELSE edge[o].wss
       IN /\ edgesByMAC' = [edgesByMAC EXCEPT ![m] = o]
          /\ edgesBySocket' = [k \in Keys |-> IF k \in {edge[o].addr, wss} THEN m
                                              ELSE edgesBySocket[k]]
          /\ Goto(p, Idle)
          /\ UNCHANGED <<communities, edgeCachedInfos, wssConnections, leases,
                         replaced, panicked>>
          /\ Store(edges, p2pInfos, [edge EXCEPT ![o].wss = wss])

-----------------------------------------------------------------------------
(* handleUnregisterMessage and CleanupStaleEdges *)

UnregisterStart(p, m) ==
    /\ task[p].pc = "idle"
    /\ Known(m)
    /\ Goto(p, [Idle EXCEPT !.pc = "unregister", !.mac = m,
                            !.cm = communities[CommunityOf[m]]])
    /\ UNCHANGED <<communities, edges, p2pInfos, edge, edgesByMAC, edgesBySocket,
                   edgeCachedInfos, wssConnections, leases, replaced, panicked>>

\* Mutant of Stale: the comparison is the wrong way round.
StaleInverted(o) == edge[o].fresh

\* GetStaleEdgeIDs: the last heartbeat is older than ExpiryDuration.
Stale(o) == ~edge[o].fresh

\* CleanupStaleEdges collects the edges without a recent heartbeat ...
CleanupStart(p) ==
    /\ task[p].pc = "idle"
    /\ LET cms == {communities[h] : h \in Communities} \ {None}
           stale == {t \in cms \X Macs :
                       edges[t[1]][t[2]] # None /\ Stale(edges[t[1]][t[2]])}
       IN /\ stale # {}
          /\ Goto(p, [Idle EXCEPT !.pc = "clean", !.todo = stale])
    /\ UNCHANGED <<communities, edges, p2pInfos, edge, edgesByMAC, edgesBySocket,
                   edgeCachedInfos, wssConnections, leases, replaced, panicked>>

\* ... and then unregisters them one by one, without looking at them again.
CleanupNext(p) ==
    /\ task[p].pc = "clean"
    /\ \E t \in task[p].todo :
         Goto(p, [task[p] EXCEPT !.pc = "unregister", !.cm = t[1], !.mac = t[2],
                                 !.todo = @ \ {t}])
    /\ UNCHANGED <<communities, edges, p2pInfos, edge, edgesByMAC, edgesBySocket,
                   edgeCachedInfos, wssConnections, leases, replaced, panicked>>

\* What the process does next when it is done with one edge.
Done(t) == IF t.todo = {} THEN Idle
           ELSE [Idle EXCEPT !.pc = "clean", !.todo = t.todo]

\* Mutant of CommunityUnregister: the virtual IP goes back to the pool, although
\* other handlers may still use the Edge.
CommunityUnregisterReleases(p) ==
    /\ task[p].pc = "unregister"
    /\ LET m == task[p].mac
           c == task[p].cm
       IN /\ SetEdgeCachedInfo(m, "offline")
          /\ leases' = [leases EXCEPT ![m] = None]
          /\ Goto(p, [task[p] EXCEPT !.pc = "unindex"])
          /\ UNCHANGED <<communities, edgesByMAC, edgesBySocket, wssConnections,
                         replaced, panicked>>
          /\ Store([edges EXCEPT ![c][m] = None],
                   [p2pInfos EXCEPT ![c] = @ \ {m}], edge)

\* Community.Unregister.  The lease of the edge is not touched.
CommunityUnregister(p) ==
    /\ task[p].pc = "unregister"
    /\ UNCHANGED <<communities, edgesBySocket, wssConnections, leases, replaced, panicked>>
    /\ LET m == task[p].mac
           c == task[p].cm
       IN IF edges[c][m] = None
          THEN /\ Goto(p, Done(task[p]))
               /\ UNCHANGED <<edgesByMAC, edgeCachedInfos>>
               /\ Store(edges, p2pInfos, edge)
          ELSE /\ SetEdgeCachedInfo(m, "offline")
               /\ Goto(p, [task[p] EXCEPT !.pc = "unindex"])
               /\ UNCHANGED edgesByMAC
               /\ Store([edges EXCEPT ![c][m] = None],
                        [p2pInfos EXCEPT ![c] = @ \ {m}], edge)

\* Mutant of OnEdgeUnregistered: the indexes keep the edge.
OnEdgeUnregisteredKeepsMAC(p) ==
    /\ task[p].pc = "unindex"
    /\ Goto(p, Done(task[p]))
    /\ UNCHANGED <<communities, edgesByMAC, edgesBySocket, edgeCachedInfos,
                   wssConnections, leases, replaced, panicked>>
    /\ Store(edges, p2pInfos, edge)

\* onEdgeUnregistered takes the edge from edgesByMAC, whichever it is by now;
\* a missing entry is a nil pointer.
OnEdgeUnregistered(p) ==
    /\ task[p].pc = "unindex"
    /\ UNCHANGED <<communities, edgeCachedInfos, wssConnections, leases, replaced>>
    /\ LET m == task[p].mac
           o == edgesByMAC[m]
       IN IF o = None
          THEN /\ panicked' = TRUE
               /\ UNCHANGED <<task, overlapped, edges, p2pInfos, edge, edgesByMAC,
                              edgesBySocket>>
          ELSE /\ edgesBySocket' = [edgesBySocket EXCEPT ![edge[o].addr] = None]
               /\ edgesByMAC' = [edgesByMAC EXCEPT ![m] = None]
               /\ Goto(p, Done(task[p]))
               /\ UNCHANGED panicked
               /\ Store(edges, p2pInfos, edge)

-----------------------------------------------------------------------------
(* handleHeartbeatMessage and handleP2PStateInfoMessage *)

HeartbeatStart(p, m, from) ==
    /\ task[p].pc = "idle"
    /\ Known(m)
    /\ Goto(p, [Idle EXCEPT !.pc = "refresh", !.mac = m, !.from = from,
                            !.cm = communities[CommunityOf[m]]])
    /\ UNCHANGED <<communities, edges, p2pInfos, edge, edgesByMAC, edgesBySocket,
                   edgeCachedInfos, wssConnections, leases, replaced, panicked>>

\* Community.RefreshEdge.  The indexes are not touched.
RefreshEdge(p) ==
    /\ task[p].pc = "refresh"
    /\ LET o == edges[task[p].cm][task[p].mac]
           addr == PublicAddr(task[p].from)
       IN /\ Goto(p, Idle)
          /\ UNCHANGED <<communities, edgesByMAC, edgesBySocket, edgeCachedInfos,
                         wssConnections, leases, replaced, panicked>>
          /\ Store(edges, p2pInfos,
                   IF o = None THEN edge
                   ELSE [edge EXCEPT ![o].addr = addr, ![o].fresh = TRUE])

\* SetP2PInfosFor tests that the edge is known under edgeMu ...
P2PStateInfoStart(p, m) ==
    /\ task[p].pc = "idle"
    /\ Known(m)
    /\ Goto(p, [Idle EXCEPT !.pc = "p2p", !.mac = m,
                            !.cm = communities[CommunityOf[m]]])
    /\ UNCHANGED <<communities, edges, p2pInfos, edge, edgesByMAC, edgesBySocket,
                   edgeCachedInfos, wssConnections, leases, replaced, panicked>>

\* ... and stores the informations under p2pMu.
SetP2PInfos(p) ==
    /\ task[p].pc = "p2p"
    /\ Goto(p, Idle)
    /\ UNCHANGED <<communities, edgesByMAC, edgesBySocket, edgeCachedInfos,
                   wssConnections, leases, replaced, panicked>>
    /\ Store(edges, [p2pInfos EXCEPT ![task[p].cm] = @ \cup {task[p].mac}], edge)

-----------------------------------------------------------------------------
(* WSS connections, time and restarts *)

WSSUpgrade(k) ==
    /\ k \notin wssConnections
    /\ wssConnections' = wssConnections \cup {k}
    /\ UNCHANGED <<communities, edges, p2pInfos, edge, edgesByMAC, edgesBySocket,
                   edgeCachedInfos, leases, task, replaced, overlapped, panicked>>

\* handleWSSConnection forgets the connection; the edge stays registered.
WSSClose(k) ==
    /\ k \in wssConnections
    /\ wssConnections' = wssConnections \ {k}
    /\ UNCHANGED <<communities, edges, p2pInfos, edge, edgesByMAC, edgesBySocket,
                   edgeCachedInfos, leases, task, replaced, overlapped, panicked>>

\* The last heartbeat of an edge becomes older than ExpiryDuration.
Expire(o) ==
    /\ edge[o] # Free
    /\ edge' = [edge EXCEPT ![o].fresh = FALSE]
    /\ UNCHANGED <<communities, edges, p2pInfos, edgesByMAC, edgesBySocket,
                   edgeCachedInfos, wssConnections, leases, task, replaced,
                   overlapped, panicked>>

\* A new supernode process: everything but the leases is lost.
Restart ==
    /\ communities' = [h \in Communities |-> None]
    /\ edges' = [c \in Cobjs |-> NoEdges]
    /\ p2pInfos' = [c \in Cobjs |-> {}]
    /\ edge' = [o \in Eobjs |-> Free]
    /\ edgesByMAC' = [m \in Macs |-> None]
    /\ edgesBySocket' = [k \in Keys |-> None]
    /\ edgeCachedInfos' = [m \in Macs |-> "none"]
    /\ wssConnections' = {}
    /\ task' = [p \in Procs |-> Idle]
    /\ replaced' = FALSE
    /\ overlapped' = {}
    /\ panicked' = FALSE
    /\ UNCHANGED leases

-----------------------------------------------------------------------------
\* Messages come from a UDP address or over an open WSS connection.
Sources(m) == Sockets[m] \cap (Addrs \cup wssConnections)

Request(p) ==
    \/ \E m \in Macs : \E from \in Sources(m) : RegisterStart(p, m, from)
    \/ \E m \in Macs : \E from \in Sources(m) : HeartbeatStart(p, m, from)
    \/ \E m \in Macs : UnregisterStart(p, m)
    \/ \E m \in Macs : P2PStateInfoStart(p, m)

Continue(p) ==
    /\ ~panicked
    /\ \/ CreateCommunity(p)
       \/ EdgeUpdate(p)
       \/ IndexEdge(p)
       \/ CleanupNext(p)
       \/ CommunityUnregister(p)
       \/ OnEdgeUnregistered(p)
       \/ RefreshEdge(p)
       \/ SetP2PInfos(p)

Cleanup(p) == ~panicked /\ CleanupStart(p)

Environment ==
    \/ \E k \in Conns : WSSUpgrade(k)
    \/ \E k \in Conns : WSSClose(k)
    \/ \E o \in Eobjs : Expire(o)

Next ==
    \/ ~panicked /\ \E p \in Workers : Request(p)
    \/ \E p \in Cleaners : Cleanup(p)
    \/ \E p \in Procs : Continue(p)
    \/ ~panicked /\ Environment
    \/ Restart

Spec == Init /\ [][Next]_vars

\* A goroutine that can run does run, and cleanupRoutine is called
\* periodically.
FairSpec ==
    /\ Spec
    /\ \A p \in Procs : WF_vars(Continue(p))
    /\ \A p \in Cleaners : WF_vars(Cleanup(p))

-----------------------------------------------------------------------------
(* Properties *)

\* Every Edge object the supernode still uses, the ones that were removed or
\* belong to a replaced Community included, carries the virtual IP that is
\* leased to its MAC address, and no two MAC addresses ever hold the same one,
\* whatever the interleaving of registrations, cleanups and restarts.
VirtualIPsAgree ==
    /\ \A o \in Eobjs : edge[o] # Free => edge[o].vip = leases[edge[o].mac]
    /\ \A m, n \in Macs : leases[m] = leases[n] /\ leases[m] # None => m = n

\* The virtual IP addresses that Edge objects show for a MAC address.
HeldBy(m) == {edge[o].vip : o \in {x \in Eobjs : edge[x] # Free /\ edge[x].mac = m}}

Lease == INSTANCE AddressLease WITH
    lease <- leases,
    held <- [m \in Macs |-> HeldBy(m)]

\* EdgeUpdate, Unregister, CleanupStaleEdges and restarts together implement
\* the lease of addresses: no step takes a lease back, gives an address to a
\* second MAC address, or lets an Edge show another address than its lease.
LeasesImplemented == Lease!Spec

\* The edge a community has for a MAC address.
MemberOf(m) == LET c == communities[CommunityOf[m]] IN
               IF c = None THEN None ELSE edges[c][m]

\* The tables agree on every edge that no handler is working on and that no
\* two handlers ever worked on at a time, whatever happens to other edges
\* (unless a community was replaced): the index of the fast path has exactly
\* the edges of the communities, and only members have P2P informations.
TablesAgree ==
    ~replaced => \A m \in Macs \ overlapped :
      (\A p \in Procs : ~Busy(task[p], m)) =>
        /\ edgesByMAC[m] = MemberOf(m)
        /\ \A c \in Cobjs : m \in p2pInfos[c] =>
             c = communities[CommunityOf[m]] /\ MemberOf(m) # None

\* onEdgeUnregistered finds the edge it dereferences in edgesByMAC, unless
\* another handler worked on the same edge at the same time.
IndexedAtUnregister ==
    \A p \in Procs :
      task[p].pc = "unindex" /\ task[p].mac \notin overlapped
        => edgesByMAC[task[p].mac] # None

\* SetEdgeCachedInfo is called under the community's lock: unless a community
\* was replaced, GetOfflineCachedEdges never lists an edge of the community as
\* offline, nor misses one that left, at any point of any handler.
CachedInfosExact ==
    ~replaced => \A m \in Macs :
      edgeCachedInfos[m] = "registered" <=> MemberOf(m) # None

\* CleanupStaleEdges: an edge whose heartbeats stopped is removed, unless it
\* comes back (or the process ends).
StaleEdgesRemoved ==
    \A m \in Macs :
      (MemberOf(m) # None /\ ~edge[MemberOf(m)].fresh)
        ~> (panicked \/ MemberOf(m) = None \/ edge[MemberOf(m)].fresh)

\* UnregisterEdge "removes an edge from the supernode": an unregistration or a
\* cleanup never ends the process.
NoPanic == ~panicked

=============================================================================
