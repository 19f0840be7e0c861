----------------------- MODULE SupernodeRegistryProofs -----------------------
(* SupernodeRegistry implements AddressLease, for every set of edges,       *)
(* communities, addresses, processes and objects.                           *)
EXTENDS SupernodeRegistry, TLAPS

(***************************************************************************)
(* The inductive invariant.                                                *)
(***************************************************************************)

PCs == {"idle", "create", "update", "index", "clean", "unregister", "unindex",
        "refresh", "p2p"}

Task == [pc: PCs, mac: Macs \cup {None}, from: Addrs \cup Conns \cup {None},
         cm: Cobjs \cup {None}, obj: Eobjs \cup {None}, todo: SUBSET (Cobjs \X Macs)]

\* What a handler needs later in its course it has read before.
TaskOK(t) ==
    /\ t \in Task
    /\ t.pc \in {"create", "update", "index", "unregister", "unindex", "refresh", "p2p"}
         => t.mac \in Macs
    /\ t.pc \in {"update", "unregister", "refresh", "p2p"} => t.cm \in Cobjs
    /\ IF t.pc = "index" THEN t.obj \in Eobjs ELSE t.obj = None

TablesTyped ==
    /\ communities \in [Communities -> Cobjs \cup {None}]
    /\ edges \in [Cobjs -> [Macs -> Eobjs \cup {None}]]
    /\ edge \in [Eobjs -> Edge \cup {Free}]
    /\ edgesByMAC \in [Macs -> Eobjs \cup {None}]
    /\ leases \in [Macs -> VIPs \cup {None}]
    /\ task \in [Procs -> Task]
    /\ \A p \in Procs : TaskOK(task[p])

\* A table, the index and a handler lead to allocated Edge objects only.
Allocated ==
    /\ \A c \in Cobjs, m \in Macs : edges[c][m] # None => edge[edges[c][m]] \in Edge
    /\ \A m \in Macs : edgesByMAC[m] # None => edge[edgesByMAC[m]] \in Edge
    /\ \A p \in Procs : task[p].obj # None => edge[task[p].obj] \in Edge

IInv == TablesTyped /\ Allocated /\ VirtualIPsAgree

\* A step keeps the MAC address and the virtual IP of the Edge objects S that
\* stay allocated.
KeepsEdges(S) ==
    \A o \in S : edge'[o] # Free =>
      edge[o] # Free /\ edge'[o].mac = edge[o].mac /\ edge'[o].vip = edge[o].vip

\* A step that neither creates an Edge nor touches the pool.
Harmless ==
    TablesTyped' /\ Allocated' /\ KeepsEdges(Eobjs) /\ leases' = leases

-----------------------------------------------------------------------------
(* Objects *)

\* Store keeps the new contents of what can be reached (garbage collection of
\* Go): if all that the new tables name is allocated, it stays allocated.
LEMMA StoreKeeps ==
    ASSUME NEW newEdges \in [Cobjs -> [Macs -> Eobjs \cup {None}]],
           NEW newInfos,
           NEW newEdge \in [Eobjs -> Edge \cup {Free}],
           edgesByMAC' \in [Macs -> Eobjs \cup {None}],
           \A p \in Procs : task'[p].obj \in Eobjs \cup {None},
           \A c \in Cobjs, m \in Macs :
              newEdges[c][m] # None => newEdge[newEdges[c][m]] \in Edge,
           \A m \in Macs : edgesByMAC'[m] # None => newEdge[edgesByMAC'[m]] \in Edge,
           \A p \in Procs : task'[p].obj # None => newEdge[task'[p].obj] \in Edge,
           Store(newEdges, newInfos, newEdge)
    PROVE  /\ edges' \in [Cobjs -> [Macs -> Eobjs \cup {None}]]
           /\ edge' \in [Eobjs -> Edge \cup {Free}]
           /\ Allocated'
           /\ \A o \in Eobjs : edge'[o] # Free => edge'[o] = newEdge[o]
<1> USE SupernodeRegistryAssumption
<1> DEFINE L == LiveEobjs'
<1>1. NoEdges \in [Macs -> Eobjs \cup {None}]
  BY Zenon DEF NoEdges
<1>2. edges' = [c \in Cobjs |-> IF c \in LiveCobjs' THEN newEdges[c] ELSE NoEdges]
  BY Zenon DEF Store
<1>3. edge' = [o \in Eobjs |-> IF o \in L THEN newEdge[o] ELSE Free]
  BY Zenon DEF Store
<1>4. /\ \A c \in Cobjs, m \in Macs : edges'[c][m] \in L
      /\ \A m \in Macs : edgesByMAC'[m] \in L
      /\ \A p \in Procs : task'[p].obj \in L
  BY DEF LiveEobjs
<1> HIDE DEF L
<1>5. edges' \in [Cobjs -> [Macs -> Eobjs \cup {None}]]
  BY <1>1, <1>2, Zenon
<1>6. edge' \in [Eobjs -> Edge \cup {Free}]
  BY <1>3, Zenon
<1>7. \A c \in Cobjs, m \in Macs : edges'[c][m] # None =>
         edges'[c][m] = newEdges[c][m]
  BY <1>2, Zenon DEF NoEdges
<1>8. \A o \in Eobjs \cap L : edge'[o] = newEdge[o]
  BY <1>3, Zenon
<1>9. \A o \in Eobjs : edge'[o] # Free => edge'[o] = newEdge[o]
  BY <1>3, Zenon
<1>10. \A c \in Cobjs, m \in Macs : edges'[c][m] # None => edge'[edges'[c][m]] \in Edge
  <2> SUFFICES ASSUME NEW c \in Cobjs, NEW m \in Macs, edges'[c][m] # None
               PROVE  edge'[edges'[c][m]] \in Edge
    BY Zenon
  <2>1. edges'[c][m] \in Eobjs \cap L
    BY <1>4, <1>5
  <2> QED
    BY <2>1, <1>7, <1>8
<1>11. \A m \in Macs : edgesByMAC'[m] # None => edge'[edgesByMAC'[m]] \in Edge
  BY <1>4, <1>8, Zenon
<1>12. \A p \in Procs : task'[p].obj # None => edge'[task'[p].obj] \in Edge
  BY <1>4, <1>8, Zenon
<1> QED
  BY <1>5, <1>6, <1>9, <1>10, <1>11, <1>12, Zenon DEF Allocated

\* The steps that only move a handler on, or refuse a request.
LEMMA HarmlessGoto ==
    ASSUME IInv, NEW p \in Procs, NEW t, TaskOK(t), t.obj = None, Goto(p, t),
           UNCHANGED <<communities, edges, edge, edgesByMAC, leases>>
    PROVE  Harmless
<1>1. task' = [task EXCEPT ![p] = t] /\ t \in Task
  BY Zenon DEF Goto, TaskOK
<1>2. task' \in [Procs -> Task] /\ \A q \in Procs : TaskOK(task'[q])
  BY <1>1, Zenon DEF IInv, TablesTyped
<1>3. TablesTyped'
  BY <1>2, Zenon DEF IInv, TablesTyped
<1>4. Allocated'
  BY <1>1, Zenon DEF IInv, TablesTyped, Allocated
<1>5. KeepsEdges(Eobjs)
  BY Zenon DEF KeepsEdges
<1> QED
  BY <1>3, <1>4, <1>5, Zenon DEF Harmless

\* A step that stores: edges leave the tables or change their addresses, and
\* neither the MAC address nor the virtual IP of an Edge is written.
StoreStep(p, t, newEdges, newInfos, newEdge) ==
    /\ Goto(p, t) /\ TaskOK(t) /\ (t.obj # None => edge[t.obj] \in Edge)
    /\ communities' \in [Communities -> Cobjs \cup {None}]
    /\ edgesByMAC' \in [Macs -> Eobjs \cup {None}]
    /\ \A m \in Macs : edgesByMAC'[m] # None => edge[edgesByMAC'[m]] \in Edge
    /\ leases' = leases
    /\ newEdges \in [Cobjs -> [Macs -> Eobjs \cup {None}]]
    /\ \A c \in Cobjs, m \in Macs : newEdges[c][m] \in {edges[c][m], None}
    /\ newEdge \in [Eobjs -> Edge \cup {Free}]
    /\ \A o \in Eobjs : edge[o] \in Edge =>
          /\ newEdge[o] \in Edge
          /\ newEdge[o].mac = edge[o].mac
          /\ newEdge[o].vip = edge[o].vip
    /\ \A o \in Eobjs : edge[o] = Free => newEdge[o] = Free
    /\ Store(newEdges, newInfos, newEdge)

\* Such a step keeps what is reachable allocated.
LEMMA HarmlessStore ==
    ASSUME IInv, NEW p \in Procs, NEW t, NEW newEdges, NEW newInfos, NEW newEdge,
           StoreStep(p, t, newEdges, newInfos, newEdge)
    PROVE  Harmless
<1> USE SupernodeRegistryAssumption
<1>a. Goto(p, t) /\ TaskOK(t) /\ (t.obj # None => edge[t.obj] \in Edge)
  BY Zenon DEF StoreStep
<1>b. /\ communities' \in [Communities -> Cobjs \cup {None}]
      /\ edgesByMAC' \in [Macs -> Eobjs \cup {None}]
      /\ \A m \in Macs : edgesByMAC'[m] # None => edge[edgesByMAC'[m]] \in Edge
      /\ leases' = leases
  BY Zenon DEF StoreStep
<1>c. /\ newEdges \in [Cobjs -> [Macs -> Eobjs \cup {None}]]
      /\ \A c \in Cobjs, m \in Macs : newEdges[c][m] \in {edges[c][m], None}
  BY Zenon DEF StoreStep
<1>d. /\ newEdge \in [Eobjs -> Edge \cup {Free}]
      /\ \A o \in Eobjs : edge[o] \in Edge =>
            /\ newEdge[o] \in Edge
            /\ newEdge[o].mac = edge[o].mac
            /\ newEdge[o].vip = edge[o].vip
      /\ \A o \in Eobjs : edge[o] = Free => newEdge[o] = Free
  BY Zenon DEF StoreStep
<1>e. Store(newEdges, newInfos, newEdge)
  BY Zenon DEF StoreStep
<1>1. task' = [task EXCEPT ![p] = t] /\ t \in Task
  BY <1>a, Zenon DEF Goto, TaskOK
<1>2. task' \in [Procs -> Task] /\ \A q \in Procs : TaskOK(task'[q])
  BY <1>a, <1>1, Zenon DEF IInv, TablesTyped
<1>3. \A q \in Procs : task'[q].obj \in Eobjs \cup {None}
  BY <1>2, Zenon DEF Task
<1>4. \A q \in Procs : task'[q].obj # None => newEdge[task'[q].obj] \in Edge
  <2> SUFFICES ASSUME NEW q \in Procs, task'[q].obj # None
               PROVE  newEdge[task'[q].obj] \in Edge
    BY Zenon
  <2>1. edge[task'[q].obj] \in Edge
    BY <1>a, <1>1, Zenon DEF IInv, TablesTyped, Allocated
  <2> QED
    BY <1>d, <1>3, <2>1, Zenon
<1>5. \A c \in Cobjs, m \in Macs :
         newEdges[c][m] # None => newEdge[newEdges[c][m]] \in Edge
  <2> SUFFICES ASSUME NEW c \in Cobjs, NEW m \in Macs, newEdges[c][m] # None
               PROVE  newEdge[newEdges[c][m]] \in Edge
    BY Zenon
  <2>1. newEdges[c][m] = edges[c][m]
    BY <1>c, Zenon
  <2>2. newEdges[c][m] \in Eobjs
    BY <1>c
  <2>3. edge[edges[c][m]] \in Edge
    BY <2>1, Zenon DEF IInv, Allocated
  <2> QED
    BY <1>d, <2>1, <2>2, <2>3, Zenon
<1>6. \A m \in Macs : edgesByMAC'[m] # None => newEdge[edgesByMAC'[m]] \in Edge
  BY <1>b, <1>d
<1>7. /\ edges' \in [Cobjs -> [Macs -> Eobjs \cup {None}]]
      /\ edge' \in [Eobjs -> Edge \cup {Free}]
      /\ Allocated'
      /\ \A o \in Eobjs : edge'[o] # Free => edge'[o] = newEdge[o]
  BY <1>b, <1>c, <1>d, <1>e, <1>3, <1>4, <1>5, <1>6, StoreKeeps
<1>8. TablesTyped'
  BY <1>b, <1>2, <1>7, Zenon DEF IInv, TablesTyped
<1>9. KeepsEdges(Eobjs)
  <2> SUFFICES ASSUME NEW o \in Eobjs, edge'[o] # Free
               PROVE  /\ edge[o] # Free
                      /\ edge'[o].mac = edge[o].mac
                      /\ edge'[o].vip = edge[o].vip
    BY Zenon DEF KeepsEdges
  <2>1. edge'[o] = newEdge[o]
    BY <1>7, Zenon
  <2>2. edge[o] \in Edge
    BY <1>d, <2>1, Zenon DEF IInv, TablesTyped
  <2> QED
    BY <1>d, <2>1, <2>2, Zenon
<1> QED
  BY <1>b, <1>7, <1>8, <1>9, Zenon DEF Harmless

-----------------------------------------------------------------------------
(* The actions *)

\* The first steps of the handlers only read (handlers.go, cleanup.go).
LEMMA StartsHarmless ==
    ASSUME IInv, NEW p \in Procs,
           \/ \E m \in Macs : \E from \in Sources(m) : RegisterStart(p, m, from)
           \/ \E m \in Macs : \E from \in Sources(m) : HeartbeatStart(p, m, from)
           \/ \E m \in Macs : UnregisterStart(p, m)
           \/ \E m \in Macs : P2PStateInfoStart(p, m)
           \/ CleanupStart(p)
           \/ CleanupNext(p)
    PROVE  Harmless
<1> USE SupernodeRegistryAssumption
<1>1. ASSUME NEW m \in Macs, NEW from \in Sources(m), RegisterStart(p, m, from)
      PROVE  Harmless
  <2> DEFINE c == communities[CommunityOf[m]]
             t == [Idle EXCEPT !.pc = IF c = None THEN "create" ELSE "update",
                               !.mac = m, !.from = from, !.cm = c]
  <2>1. c \in Cobjs \cup {None} /\ from \in Addrs \cup Conns
    BY Zenon DEF IInv, TablesTyped, Sources
  <2>2. TaskOK(t) /\ t.obj = None
    BY <2>1, Zenon DEF TaskOK, Task, Idle, PCs
  <2> QED
    BY <1>1, <2>2, HarmlessGoto, Zenon DEF RegisterStart
<1>2. ASSUME NEW m \in Macs, NEW from \in Sources(m), HeartbeatStart(p, m, from)
      PROVE  Harmless
  <2> DEFINE c == communities[CommunityOf[m]]
             t == [Idle EXCEPT !.pc = "refresh", !.mac = m, !.from = from, !.cm = c]
  <2>1. c \in Cobjs /\ from \in Addrs \cup Conns
    BY <1>2, Zenon DEF IInv, TablesTyped, Sources, HeartbeatStart, Known
  <2>2. TaskOK(t) /\ t.obj = None
    BY <2>1, Zenon DEF TaskOK, Task, Idle, PCs
  <2> QED
    BY <1>2, <2>2, HarmlessGoto, Zenon DEF HeartbeatStart
<1>3. ASSUME NEW m \in Macs, UnregisterStart(p, m)
      PROVE  Harmless
  <2> DEFINE c == communities[CommunityOf[m]]
             t == [Idle EXCEPT !.pc = "unregister", !.mac = m, !.cm = c]
  <2>1. c \in Cobjs
    BY <1>3, Zenon DEF IInv, TablesTyped, UnregisterStart, Known
  <2>2. TaskOK(t) /\ t.obj = None
    BY <2>1, Zenon DEF TaskOK, Task, Idle, PCs
  <2> QED
    BY <1>3, <2>2, HarmlessGoto, Zenon DEF UnregisterStart
<1>4. ASSUME NEW m \in Macs, P2PStateInfoStart(p, m)
      PROVE  Harmless
  <2> DEFINE c == communities[CommunityOf[m]]
             t == [Idle EXCEPT !.pc = "p2p", !.mac = m, !.cm = c]
  <2>1. c \in Cobjs
    BY <1>4, Zenon DEF IInv, TablesTyped, P2PStateInfoStart, Known
  <2>2. TaskOK(t) /\ t.obj = None
    BY <2>1, Zenon DEF TaskOK, Task, Idle, PCs
  <2> QED
    BY <1>4, <2>2, HarmlessGoto, Zenon DEF P2PStateInfoStart
<1>5. ASSUME CleanupStart(p)
      PROVE  Harmless
  <2> DEFINE cms == {communities[h] : h \in Communities} \ {None}
             stale == {t \in cms \X Macs :
                         edges[t[1]][t[2]] # None /\ Stale(edges[t[1]][t[2]])}
             t == [Idle EXCEPT !.pc = "clean", !.todo = stale]
  <2>1. stale \subseteq Cobjs \X Macs
    BY DEF IInv, TablesTyped
  <2>2. Goto(p, t)
    BY <1>5, Zenon DEF CleanupStart
  <2> HIDE DEF stale
  <2>3. TaskOK(t) /\ t.obj = None
    BY <2>1, Zenon DEF TaskOK, Task, Idle, PCs
  <2> QED
    BY <1>5, <2>2, <2>3, HarmlessGoto, Zenon DEF CleanupStart
<1>6. ASSUME CleanupNext(p)
      PROVE  Harmless
  <2>1. PICK x \in task[p].todo :
          Goto(p, [task[p] EXCEPT !.pc = "unregister", !.cm = x[1], !.mac = x[2],
                                  !.todo = @ \ {x}])
    BY <1>6, Zenon DEF CleanupNext
  <2> DEFINE t == [task[p] EXCEPT !.pc = "unregister", !.cm = x[1], !.mac = x[2],
                                  !.todo = @ \ {x}]
  <2>2. task[p] \in Task /\ x[1] \in Cobjs /\ x[2] \in Macs
    BY <2>1 DEF IInv, TablesTyped, Task
  <2>3. task[p].obj = None
    BY <1>6, Zenon DEF CleanupNext, IInv, TablesTyped, TaskOK
  <2>4. TaskOK(t) /\ t.obj = None
    BY <2>2, <2>3, Zenon DEF TaskOK, Task, PCs
  <2> QED
    BY <1>6, <2>1, <2>4, HarmlessGoto, Zenon DEF CleanupNext
<1> QED
  BY <1>1, <1>2, <1>3, <1>4, <1>5, <1>6, Zenon

\* What a step of a handler knows about itself.
LEMMA TaskFacts ==
    ASSUME IInv, NEW p \in Procs
    PROVE  TaskOK(task[p]) /\ task[p] \in Task
  BY Zenon DEF IInv, TablesTyped

\* The idle handler, and the one that goes on with CleanupStaleEdges.
LEMMA DoneFacts ==
    ASSUME NEW t \in Task
    PROVE  /\ TaskOK(Idle) /\ Idle.obj = None
           /\ TaskOK(Done(t)) /\ Done(t).obj = None
<1>1. TaskOK(Idle) /\ Idle.obj = None
  BY Zenon DEF TaskOK, Task, Idle, PCs
<1>2. t.todo \in SUBSET (Cobjs \X Macs)
  BY Zenon DEF Task
<1>3. TaskOK([Idle EXCEPT !.pc = "clean", !.todo = t.todo])
      /\ [Idle EXCEPT !.pc = "clean", !.todo = t.todo].obj = None
  BY <1>2, Zenon DEF TaskOK, Task, Idle, PCs
<1> QED
  BY <1>1, <1>3, Zenon DEF Done

\* The handler of a registration goes on with a Community (RegisterCommunity),
\* and with an Edge of it (EdgeUpdate).
LEMMA RegistrationFacts ==
    ASSUME NEW t \in Task, t.mac \in Macs
    PROVE  /\ \A c \in Cobjs : t.obj = None =>
                TaskOK([t EXCEPT !.pc = "update", !.cm = c])
           /\ \A o \in Eobjs : TaskOK([t EXCEPT !.pc = "index", !.obj = o])
<1>1. ASSUME NEW c \in Cobjs, t.obj = None
      PROVE  TaskOK([t EXCEPT !.pc = "update", !.cm = c])
  BY <1>1, Zenon DEF TaskOK, Task, PCs
<1>2. ASSUME NEW o \in Eobjs
      PROVE  TaskOK([t EXCEPT !.pc = "index", !.obj = o])
  BY Zenon DEF TaskOK, Task, PCs
<1> QED
  BY <1>1, <1>2, Zenon

\* RegisterCommunity creates a Community or replaces one (registration.go).
LEMMA CreateCommunityHarmless ==
    ASSUME IInv, NEW p \in Procs, CreateCommunity(p)
    PROVE  Harmless
<1> USE SupernodeRegistryAssumption
<1>1. PICK c \in Cobjs :
        /\ communities' = [communities EXCEPT ![CommunityOf[task[p].mac]] = c]
        /\ Goto(p, [task[p] EXCEPT !.pc = "update", !.cm = c])
  BY Zenon DEF CreateCommunity
<1> DEFINE t == [task[p] EXCEPT !.pc = "update", !.cm = c]
<1>2. TaskOK(t) /\ t.obj = None
  <2>1. task[p] \in Task /\ task[p].mac \in Macs /\ task[p].obj = None
    BY TaskFacts, Zenon DEF CreateCommunity, TaskOK
  <2>2. TaskOK(t)
    BY <2>1, RegistrationFacts, Zenon
  <2> QED
    BY <2>1, <2>2, Zenon DEF Task
<1>3. communities' \in [Communities -> Cobjs \cup {None}]
  BY <1>1, Zenon DEF IInv, TablesTyped
<1>4. edgesByMAC' = edgesByMAC /\ leases' = leases /\ Store(edges, p2pInfos, edge)
  BY Zenon DEF CreateCommunity
<1> HIDE DEF t
<1>5. StoreStep(p, t, edges, p2pInfos, edge)
  BY <1>1, <1>2, <1>3, <1>4, Zenon DEF IInv, TablesTyped, Allocated, StoreStep, t
<1> QED
  BY <1>5, HarmlessStore, Zenon

\* Community.EdgeUpdate, for an edge the community knows, or when the pool is
\* exhausted.
LEMMA KnownEdgeUpdateHarmless ==
    ASSUME IInv, NEW p \in Procs, EdgeUpdate(p), leases' = leases,
           edges[task[p].cm][task[p].mac] # None
    PROVE  Harmless
<1> USE SupernodeRegistryAssumption
<1> DEFINE o == edges[task[p].cm][task[p].mac]
           addr == PublicAddr(task[p].from)
           t == [task[p] EXCEPT !.pc = "index", !.obj = o]
           newEdge == [edge EXCEPT ![o].addr = IF addr = NoAddr THEN @ ELSE addr,
                                   ![o].fresh = TRUE]
<1>1. task[p].cm \in Cobjs /\ task[p].mac \in Macs
  BY TaskFacts, Zenon DEF EdgeUpdate, TaskOK
<1>2. o \in Eobjs /\ edge[o] \in Edge
  BY <1>1 DEF IInv, TablesTyped, Allocated
<1>3. addr \in Addrs \cup {NoAddr}
  BY Zenon DEF PublicAddr
<1>4. /\ Goto(p, t)
      /\ communities' = communities /\ edgesByMAC' = edgesByMAC
      /\ Store(edges, p2pInfos, newEdge)
  BY Zenon DEF EdgeUpdate
<1> HIDE DEF o, addr
<1>5. TaskOK(t) /\ t.obj = o
  <2>1. TaskOK(t)
    BY <1>1, <1>2, TaskFacts, RegistrationFacts, Zenon
  <2>2. task[p] \in Task
    BY TaskFacts, Zenon
  <2> QED
    BY <2>1, <2>2, Zenon DEF Task
<1>6. /\ newEdge \in [Eobjs -> Edge \cup {Free}]
      /\ newEdge[o] \in Edge
      /\ newEdge[o].mac = edge[o].mac /\ newEdge[o].vip = edge[o].vip
      /\ \A x \in Eobjs : x # o => newEdge[x] = edge[x]
  BY <1>2, <1>3 DEF IInv, TablesTyped, Edge
<1> HIDE DEF newEdge, t
<1>7. \A x \in Eobjs : edge[x] \in Edge =>
          newEdge[x] \in Edge /\ newEdge[x].mac = edge[x].mac
                              /\ newEdge[x].vip = edge[x].vip
  BY <1>6, Zenon
<1>8. \A x \in Eobjs : edge[x] = Free => newEdge[x] = Free
  BY <1>2, <1>6, Zenon
<1>9. StoreStep(p, t, edges, p2pInfos, newEdge)
  BY <1>2, <1>4, <1>5, <1>6, <1>7, <1>8, Zenon DEF IInv, TablesTyped, Allocated,
     StoreStep
<1> QED
  BY <1>9, HarmlessStore, Zenon

\* Community.EdgeUpdate refuses the registration.
LEMMA RefusedEdgeUpdateHarmless ==
    ASSUME IInv, NEW p \in Procs, EdgeUpdate(p), RequestIP(task[p].mac) = {},
           edges[task[p].cm][task[p].mac] = None
    PROVE  Harmless
<1>1. /\ Goto(p, Idle) /\ Store(edges, p2pInfos, edge)
      /\ UNCHANGED <<communities, edgesByMAC, leases>>
  BY Zenon DEF EdgeUpdate
<1>2. StoreStep(p, Idle, edges, p2pInfos, edge)
  BY <1>1, TaskFacts, DoneFacts, Zenon DEF IInv, TablesTyped, Allocated, StoreStep
<1> QED
  BY <1>2, HarmlessStore, Zenon

\* handleRegister enters the edge in the indexes (handlers.go, registration.go).
LEMMA IndexEdgeHarmless ==
    ASSUME IInv, NEW p \in Procs, IndexEdge(p)
    PROVE  Harmless
<1> USE SupernodeRegistryAssumption
<1> DEFINE m == task[p].mac
           o == task[p].obj
           wss == IF task[p].from \in Conns THEN task[p].from ELSE edge[o].wss
           newEdge == [edge EXCEPT ![o].wss = wss]
<1>1. m \in Macs /\ o \in Eobjs
  BY TaskFacts, Zenon DEF IndexEdge, TaskOK
<1>2. o # None /\ edge[o] \in Edge
  BY <1>1, Zenon DEF IInv, Allocated
<1>3. wss \in Conns \cup {NoConn}
  BY <1>2, Zenon DEF Edge
<1>4. /\ edgesByMAC' = [edgesByMAC EXCEPT ![m] = o]
      /\ Goto(p, Idle) /\ Store(edges, p2pInfos, newEdge)
      /\ UNCHANGED <<communities, leases>>
  BY Zenon DEF IndexEdge
<1> HIDE DEF m, o, wss
<1>5. /\ newEdge \in [Eobjs -> Edge \cup {Free}]
      /\ newEdge[o] \in Edge
      /\ newEdge[o].mac = edge[o].mac /\ newEdge[o].vip = edge[o].vip
      /\ \A x \in Eobjs : x # o => newEdge[x] = edge[x]
  BY <1>1, <1>2, <1>3, Zenon DEF IInv, TablesTyped, Edge
<1> HIDE DEF newEdge
<1>6. \A x \in Eobjs : edge[x] \in Edge =>
          newEdge[x] \in Edge /\ newEdge[x].mac = edge[x].mac
                              /\ newEdge[x].vip = edge[x].vip
  BY <1>5, Zenon
<1>7. \A x \in Eobjs : edge[x] = Free => newEdge[x] = Free
  BY <1>2, <1>5, Zenon
<1>8. /\ edgesByMAC' \in [Macs -> Eobjs \cup {None}]
      /\ \A x \in Macs : edgesByMAC'[x] # None => edge[edgesByMAC'[x]] \in Edge
  BY <1>1, <1>2, <1>4, Zenon DEF IInv, TablesTyped, Allocated
<1>9. StoreStep(p, Idle, edges, p2pInfos, newEdge)
  BY <1>4, <1>5, <1>6, <1>7, <1>8, TaskFacts, DoneFacts, Zenon DEF IInv, TablesTyped,
     StoreStep
<1> QED
  BY <1>9, HarmlessStore, Zenon

\* Community.Unregister (community.go).
LEMMA CommunityUnregisterHarmless ==
    ASSUME IInv, NEW p \in Procs, CommunityUnregister(p)
    PROVE  Harmless
<1> USE SupernodeRegistryAssumption
<1> DEFINE m == task[p].mac
           c == task[p].cm
<1>1. m \in Macs /\ c \in Cobjs
  BY TaskFacts, Zenon DEF CommunityUnregister, TaskOK
<1>2. UNCHANGED <<communities, edgesByMAC, leases>>
  BY Zenon DEF CommunityUnregister
<1>3. CASE edges[c][m] = None
  <2>1. Goto(p, Done(task[p])) /\ Store(edges, p2pInfos, edge)
    BY <1>3, Zenon DEF CommunityUnregister
  <2>2. StoreStep(p, Done(task[p]), edges, p2pInfos, edge)
    BY <1>2, <2>1, TaskFacts, DoneFacts, Zenon DEF IInv, TablesTyped, Allocated,
       StoreStep
  <2> QED
    BY <2>2, HarmlessStore, Zenon
<1>4. CASE edges[c][m] # None
  <2> DEFINE t == [task[p] EXCEPT !.pc = "unindex"]
             newEdges == [edges EXCEPT ![c][m] = None]
             newInfos == [p2pInfos EXCEPT ![c] = @ \ {m}]
  <2>1. Goto(p, t) /\ Store(newEdges, newInfos, edge)
    BY <1>4, Zenon DEF CommunityUnregister
  <2>2. TaskOK(t) /\ t.obj = None
    BY TaskFacts DEF CommunityUnregister, TaskOK, Task, PCs
  <2> HIDE DEF t, m, c, newInfos
  <2>3. /\ newEdges \in [Cobjs -> [Macs -> Eobjs \cup {None}]]
        /\ \A x \in Cobjs, y \in Macs : newEdges[x][y] \in {edges[x][y], None}
    BY <1>1, Zenon DEF IInv, TablesTyped
  <2> HIDE DEF newEdges
  <2>4. StoreStep(p, t, newEdges, newInfos, edge)
    BY <1>2, <2>1, <2>2, <2>3, Zenon DEF IInv, TablesTyped, Allocated, StoreStep
  <2> QED
    BY <2>4, HarmlessStore, Zenon
<1> QED
  BY <1>3, <1>4, Zenon

\* onEdgeUnregistered (registration.go), the panic included.
LEMMA OnEdgeUnregisteredHarmless ==
    ASSUME IInv, NEW p \in Procs, OnEdgeUnregistered(p)
    PROVE  Harmless
<1> USE SupernodeRegistryAssumption
<1> DEFINE m == task[p].mac
<1>1. m \in Macs
  BY TaskFacts, Zenon DEF OnEdgeUnregistered, TaskOK
<1>2. CASE edgesByMAC[m] = None
  <2>1. UNCHANGED <<communities, edges, edge, edgesByMAC, leases, task>>
    BY <1>2, Zenon DEF OnEdgeUnregistered
  <2> QED
    BY <2>1, Zenon DEF IInv, TablesTyped, Allocated, Harmless, KeepsEdges
<1>3. CASE edgesByMAC[m] # None
  <2>1. /\ edgesByMAC' = [edgesByMAC EXCEPT ![m] = None]
        /\ Goto(p, Done(task[p])) /\ Store(edges, p2pInfos, edge)
        /\ UNCHANGED <<communities, leases>>
    BY <1>3, Zenon DEF OnEdgeUnregistered
  <2>2. /\ edgesByMAC' \in [Macs -> Eobjs \cup {None}]
        /\ \A x \in Macs : edgesByMAC'[x] # None => edge[edgesByMAC'[x]] \in Edge
    BY <1>1, <2>1, Zenon DEF IInv, TablesTyped, Allocated
  <2>3. StoreStep(p, Done(task[p]), edges, p2pInfos, edge)
    BY <2>1, <2>2, TaskFacts, DoneFacts, Zenon DEF IInv, TablesTyped, StoreStep
  <2> QED
    BY <2>3, HarmlessStore
<1> QED
  BY <1>2, <1>3, Zenon

\* Community.RefreshEdge (community.go).
LEMMA RefreshEdgeHarmless ==
    ASSUME IInv, NEW p \in Procs, RefreshEdge(p)
    PROVE  Harmless
<1> USE SupernodeRegistryAssumption
<1> DEFINE o == edges[task[p].cm][task[p].mac]
           addr == PublicAddr(task[p].from)
           newEdge == IF o = None THEN edge
                      ELSE [edge EXCEPT ![o].addr = addr, ![o].fresh = TRUE]
<1>1. task[p].cm \in Cobjs /\ task[p].mac \in Macs
  BY TaskFacts, Zenon DEF RefreshEdge, TaskOK
<1>2. o \in Eobjs \cup {None} /\ (o # None => edge[o] \in Edge)
  <2>1. o \in Eobjs \cup {None}
    BY <1>1 DEF IInv, TablesTyped
  <2>2. o # None => edge[o] \in Edge
    BY <1>1, Zenon DEF IInv, Allocated
  <2> QED
    BY <2>1, <2>2, Zenon
<1>3. addr \in Addrs \cup {NoAddr}
  BY Zenon DEF PublicAddr
<1>4. /\ Goto(p, Idle) /\ Store(edges, p2pInfos, newEdge)
      /\ UNCHANGED <<communities, edgesByMAC, leases>>
  BY Zenon DEF RefreshEdge
<1> HIDE DEF o, addr
<1>5. /\ newEdge \in [Eobjs -> Edge \cup {Free}]
      /\ o # None => /\ newEdge[o] \in Edge
                     /\ newEdge[o].mac = edge[o].mac
                     /\ newEdge[o].vip = edge[o].vip
      /\ \A x \in Eobjs : x # o => newEdge[x] = edge[x]
  BY <1>2, <1>3, Zenon DEF IInv, TablesTyped, Edge
<1> HIDE DEF newEdge
<1>6. \A x \in Eobjs : edge[x] \in Edge =>
          newEdge[x] \in Edge /\ newEdge[x].mac = edge[x].mac
                              /\ newEdge[x].vip = edge[x].vip
  BY <1>5, Zenon
<1>7. \A x \in Eobjs : edge[x] = Free => newEdge[x] = Free
  BY <1>2, <1>5, Zenon
<1>8. StoreStep(p, Idle, edges, p2pInfos, newEdge)
  BY <1>4, <1>5, <1>6, <1>7, TaskFacts, DoneFacts, Zenon
     DEF IInv, TablesTyped, Allocated, StoreStep
<1> QED
  BY <1>8, HarmlessStore

\* SetP2PInfosFor (community.go).
LEMMA SetP2PInfosHarmless ==
    ASSUME IInv, NEW p \in Procs, SetP2PInfos(p)
    PROVE  Harmless
<1> DEFINE newInfos == [p2pInfos EXCEPT ![task[p].cm] = @ \cup {task[p].mac}]
<1>1. /\ Goto(p, Idle) /\ Store(edges, newInfos, edge)
      /\ UNCHANGED <<communities, edgesByMAC, leases>>
  BY Zenon DEF SetP2PInfos
<1> HIDE DEF newInfos
<1>2. StoreStep(p, Idle, edges, newInfos, edge)
  BY <1>1, TaskFacts, DoneFacts, Zenon DEF IInv, TablesTyped, Allocated, StoreStep
<1> QED
  BY <1>2, HarmlessStore, Zenon

\* A heartbeat becomes old; a new supernode process starts.
LEMMA EnvironmentHarmless ==
    ASSUME IInv, Environment \/ Restart
    PROVE  Harmless
<1> USE SupernodeRegistryAssumption
<1>1. CASE \E k \in Conns : WSSUpgrade(k) \/ WSSClose(k)
  <2>1. UNCHANGED <<communities, edges, edge, edgesByMAC, leases, task>>
    BY <1>1, Zenon DEF WSSUpgrade, WSSClose
  <2> QED
    BY <2>1, Zenon DEF IInv, TablesTyped, Allocated, Harmless, KeepsEdges
<1>2. CASE \E o \in Eobjs : Expire(o)
  <2>1. PICK o \in Eobjs : Expire(o)
    BY <1>2, Zenon
  <2>2. /\ edge[o] \in Edge
        /\ edge' = [edge EXCEPT ![o].fresh = FALSE]
        /\ UNCHANGED <<communities, edges, edgesByMAC, leases, task>>
    BY <2>1, Zenon DEF Expire, IInv, TablesTyped
  <2>3. /\ edge' \in [Eobjs -> Edge \cup {Free}]
        /\ edge'[o] \in Edge
        /\ edge'[o].mac = edge[o].mac /\ edge'[o].vip = edge[o].vip
        /\ \A x \in Eobjs : x # o => edge'[x] = edge[x]
    BY <2>2, Zenon DEF IInv, TablesTyped, Edge
  <2>4. TablesTyped'
    BY <2>2, <2>3, Zenon DEF IInv, TablesTyped
  <2>5. \A x \in Eobjs : edge[x] \in Edge => edge'[x] \in Edge
    BY <2>3, Zenon
  <2>6. Allocated'
    <3>1. /\ \A c \in Cobjs, m \in Macs : edges[c][m] \in Eobjs \cup {None}
          /\ \A m \in Macs : edgesByMAC[m] \in Eobjs \cup {None}
          /\ \A q \in Procs : task[q].obj \in Eobjs \cup {None}
      BY TaskFacts DEF IInv, TablesTyped, Task
    <3> QED
      BY <2>2, <2>5, <3>1, Zenon DEF IInv, Allocated
  <2>7. KeepsEdges(Eobjs)
    BY <2>2, <2>3, Zenon DEF KeepsEdges
  <2> QED
    BY <2>2, <2>4, <2>6, <2>7, Zenon DEF Harmless
<1>3. CASE Restart
  <2>1. Idle \in Task /\ TaskOK(Idle) /\ Idle.obj = None
    BY Zenon DEF Idle, Task, TaskOK, PCs
  <2>2. TablesTyped'
    BY <1>3, <2>1, Zenon DEF Restart, IInv, TablesTyped, NoEdges
  <2>3. Allocated'
    BY <1>3, <2>1, Zenon DEF Restart, Allocated, NoEdges
  <2> QED
    BY <1>3, <2>2, <2>3, Zenon DEF Restart, Harmless, KeepsEdges
<1> QED
  BY <1>1, <1>2, <1>3, Zenon DEF Environment

\* A step that creates the Edge n for MAC address m, with the lease it has or
\* with an address that was free.
NewEdge(m, n) ==
    /\ TablesTyped' /\ Allocated' /\ KeepsEdges(Eobjs \ {n})
    /\ edge'[n] # Free => edge'[n].mac = m /\ edge'[n].vip = leases'[m]
    /\ leases'[m] \in RequestIP(m)
    /\ leases' = [leases EXCEPT ![m] = leases'[m]]

\* Community.EdgeUpdate, for an edge the community does not know.
LEMMA NewEdgeUpdate ==
    ASSUME IInv, NEW p \in Procs, EdgeUpdate(p),
           edges[task[p].cm][task[p].mac] = None,
           RequestIP(task[p].mac) # {}
    PROVE  task[p].mac \in Macs /\ \E n \in Eobjs : NewEdge(task[p].mac, n)
<1> USE SupernodeRegistryAssumption
<1> DEFINE m == task[p].mac
           c == task[p].cm
           addr == PublicAddr(task[p].from)
<1>1. m \in Macs /\ c \in Cobjs
  BY TaskFacts, Zenon DEF EdgeUpdate, TaskOK
<1>2. PICK n \in Eobjs, vip \in RequestIP(m) :
        /\ leases' = [leases EXCEPT ![m] = vip]
        /\ Goto(p, [task[p] EXCEPT !.pc = "index", !.obj = n])
        /\ UNCHANGED <<communities, edgesByMAC>>
        /\ Store([edges EXCEPT ![c][m] = n], p2pInfos,
                 [edge EXCEPT ![n] = [mac |-> m, addr |-> addr, wss |-> NoConn,
                                      vip |-> vip, fresh |-> TRUE]])
  BY Zenon DEF EdgeUpdate
<1> DEFINE e == [mac |-> m, addr |-> addr, wss |-> NoConn, vip |-> vip, fresh |-> TRUE]
           newEdges == [edges EXCEPT ![c][m] = n]
           newEdge == [edge EXCEPT ![n] = e]
           t == [task[p] EXCEPT !.pc = "index", !.obj = n]
<1>3. vip \in VIPs /\ leases' \in [Macs -> VIPs \cup {None}] /\ leases'[m] = vip
  BY <1>1, <1>2 DEF RequestIP, IInv, TablesTyped
<1>4. e \in Edge /\ e.mac = m /\ e.vip = vip
  BY <1>1, <1>3, Zenon DEF Edge, PublicAddr
<1>5. t \in Task /\ TaskOK(t) /\ t.obj = n
  <2>1. TaskOK(t)
    BY <1>1, TaskFacts, RegistrationFacts, Zenon
  <2>2. task[p] \in Task
    BY TaskFacts, Zenon
  <2> QED
    BY <2>1, <2>2, Zenon DEF Task, TaskOK
<1>6. Goto(p, t) /\ Store(newEdges, p2pInfos, newEdge)
  BY <1>2, Zenon
<1> HIDE DEF e, t, m, c, addr
<1>7. /\ newEdges \in [Cobjs -> [Macs -> Eobjs \cup {None}]]
      /\ \A x \in Cobjs, y \in Macs : newEdges[x][y] \in {edges[x][y], n}
  BY <1>1, Zenon DEF IInv, TablesTyped
<1>8. /\ newEdge \in [Eobjs -> Edge \cup {Free}]
      /\ newEdge[n] = e
      /\ \A x \in Eobjs : x # n => newEdge[x] = edge[x]
  BY <1>4, Zenon DEF IInv, TablesTyped
<1> HIDE DEF newEdges, newEdge
<1>9. \A x \in Eobjs : x = n \/ edge[x] \in Edge => newEdge[x] \in Edge
  BY <1>4, <1>8, Zenon
<1>10. task' = [task EXCEPT ![p] = t]
  BY <1>6, Zenon DEF Goto
<1>11. task' \in [Procs -> Task] /\ \A q \in Procs : TaskOK(task'[q])
  BY <1>5, <1>10, Zenon DEF IInv, TablesTyped
<1>12. \A q \in Procs : task'[q].obj \in Eobjs \cup {None}
  BY <1>11, Zenon DEF Task
<1>13. \A q \in Procs : task'[q].obj # None => newEdge[task'[q].obj] \in Edge
  <2>1. \A q \in Procs : task'[q].obj \in {task[q].obj, n}
    BY <1>5, <1>10, Zenon DEF IInv, TablesTyped
  <2>2. \A q \in Procs : task[q].obj \in Eobjs \cup {None}
    BY TaskFacts, Zenon DEF Task
  <2> QED
    BY <2>1, <2>2, <1>9, Zenon DEF IInv, Allocated
<1>14. \A x \in Cobjs, y \in Macs :
          newEdges[x][y] # None => newEdge[newEdges[x][y]] \in Edge
  <2> SUFFICES ASSUME NEW x \in Cobjs, NEW y \in Macs, newEdges[x][y] # None
               PROVE  newEdge[newEdges[x][y]] \in Edge
    BY Zenon
  <2>1. newEdges[x][y] \in Eobjs
    BY <1>7
  <2>2. newEdges[x][y] = n \/ edge[newEdges[x][y]] \in Edge
    BY <1>7, Zenon DEF IInv, Allocated
  <2> QED
    BY <2>1, <2>2, <1>9, Zenon
<1>15. /\ edgesByMAC' \in [Macs -> Eobjs \cup {None}]
       /\ \A x \in Macs : edgesByMAC'[x] # None => newEdge[edgesByMAC'[x]] \in Edge
  BY <1>2, <1>9, Zenon DEF IInv, TablesTyped, Allocated
<1>16. /\ edges' \in [Cobjs -> [Macs -> Eobjs \cup {None}]]
       /\ edge' \in [Eobjs -> Edge \cup {Free}]
       /\ Allocated'
       /\ \A o \in Eobjs : edge'[o] # Free => edge'[o] = newEdge[o]
  <2>1. newEdges \in [Cobjs -> [Macs -> Eobjs \cup {None}]]
    BY <1>7, Zenon
  <2>2. newEdge \in [Eobjs -> Edge \cup {Free}]
    BY <1>8, Zenon
  <2>3. Store(newEdges, p2pInfos, newEdge)
    BY <1>6, Zenon
  <2> QED
    BY <2>1, <2>2, <2>3, <1>12, <1>13, <1>14, <1>15, StoreKeeps
<1>17. TablesTyped'
  BY <1>2, <1>3, <1>11, <1>15, <1>16, Zenon DEF IInv, TablesTyped
<1>18. KeepsEdges(Eobjs \ {n})
  BY <1>8, <1>16, Zenon DEF KeepsEdges
<1>19. edge'[n] # Free => edge'[n].mac = m /\ edge'[n].vip = leases'[m]
  BY <1>3, <1>4, <1>8, <1>16, Zenon
<1>20. NewEdge(m, n)
  BY <1>2, <1>3, <1>16, <1>17, <1>18, <1>19, Zenon DEF NewEdge
<1> QED
  BY <1>1, <1>20, Zenon DEF m

-----------------------------------------------------------------------------
(* The step *)

\* Every step of the supernode is one of the two kinds.
LEMMA Steps ==
    ASSUME IInv, Next
    PROVE  Harmless \/ \E m \in Macs, n \in Eobjs : NewEdge(m, n)
<1>1. ASSUME NEW p \in Workers, Request(p)
      PROVE  Harmless
  BY <1>1, StartsHarmless, Zenon DEF Request, Procs
<1>2. ASSUME NEW p \in Cleaners, Cleanup(p)
      PROVE  Harmless
  BY <1>2, StartsHarmless, Zenon DEF Cleanup, Procs
<1>3. ASSUME NEW p \in Procs, EdgeUpdate(p)
      PROVE  Harmless \/ \E m \in Macs, n \in Eobjs : NewEdge(m, n)
  <2>1. CASE edges[task[p].cm][task[p].mac] # None
    <3>1. leases' = leases
      BY <1>3, <2>1, Zenon DEF EdgeUpdate
    <3> QED
      BY <1>3, <2>1, <3>1, KnownEdgeUpdateHarmless, Zenon
  <2>2. CASE edges[task[p].cm][task[p].mac] = None /\ RequestIP(task[p].mac) = {}
    BY <1>3, <2>2, RefusedEdgeUpdateHarmless, Zenon
  <2>3. CASE edges[task[p].cm][task[p].mac] = None /\ RequestIP(task[p].mac) # {}
    BY <1>3, <2>3, NewEdgeUpdate, Zenon
  <2> QED
    BY <2>1, <2>2, <2>3, Zenon
<1>4. ASSUME NEW p \in Procs, Continue(p), ~EdgeUpdate(p)
      PROVE  Harmless
  BY <1>4, CreateCommunityHarmless, IndexEdgeHarmless, StartsHarmless,
     CommunityUnregisterHarmless, OnEdgeUnregisteredHarmless, RefreshEdgeHarmless,
     SetP2PInfosHarmless, Zenon DEF Continue
<1>5. CASE Environment \/ Restart
  BY <1>5, EnvironmentHarmless, Zenon
<1> QED
  BY <1>1, <1>2, <1>3, <1>4, <1>5, Zenon DEF Next

\* The invariant holds at the start ...
LEMMA InitInv == Init => IInv
<1> SUFFICES ASSUME Init PROVE IInv
  BY Zenon
<1>1. Idle \in Task /\ TaskOK(Idle) /\ Idle.obj = None
  BY Zenon DEF Idle, Task, TaskOK, PCs
<1>2. TablesTyped
  BY <1>1, Zenon DEF Init, TablesTyped, NoEdges
<1>3. Allocated
  BY <1>1, Zenon DEF Init, Allocated, NoEdges
<1>4. VirtualIPsAgree
  BY Zenon DEF Init, VirtualIPsAgree
<1> QED
  BY <1>2, <1>3, <1>4, Zenon DEF IInv

\* ... and every step keeps it.
LEMMA NextInv == IInv /\ [Next]_vars => IInv'
<1> SUFFICES ASSUME IInv, [Next]_vars PROVE IInv'
  BY Zenon
<1> USE SupernodeRegistryAssumption
<1>1. CASE UNCHANGED vars
  BY <1>1, Zenon DEF vars, IInv, TablesTyped, Allocated, VirtualIPsAgree
<1>2. ASSUME Harmless
      PROVE  IInv'
  <2>1. \A o \in Eobjs : edge'[o] # Free => edge'[o].vip = leases'[edge'[o].mac]
    BY <1>2, Zenon DEF Harmless, KeepsEdges, IInv, VirtualIPsAgree
  <2> QED
    BY <1>2, <2>1, Zenon DEF Harmless, IInv, VirtualIPsAgree
<1>3. ASSUME NEW m \in Macs, NEW n \in Eobjs, NewEdge(m, n)
      PROVE  IInv'
  <2> DEFINE vip == leases'[m]
  <2>1. /\ leases' = [leases EXCEPT ![m] = vip]
        /\ leases \in [Macs -> VIPs \cup {None}]
        /\ vip \in RequestIP(m)
    BY <1>3, Zenon DEF NewEdge, IInv, TablesTyped
  <2> HIDE DEF vip
  <2>2. vip \in VIPs /\ (leases[m] = vip \/ (leases[m] = None
                                            /\ \A x \in Macs : leases[x] # vip))
    BY <2>1 DEF RequestIP
  <2>3. \A x, y \in Macs : leases'[x] = leases'[y] /\ leases'[x] # None => x = y
    BY <2>1, <2>2, Zenon DEF IInv, VirtualIPsAgree
  <2>4. ASSUME NEW o \in Eobjs, edge'[o] # Free
        PROVE  edge'[o].vip = leases'[edge'[o].mac]
    <3>1. CASE o = n
      BY <1>3, <2>4, <3>1, Zenon DEF NewEdge
    <3>2. CASE o # n
      <4>1. /\ edge[o] # Free
            /\ edge'[o].mac = edge[o].mac /\ edge'[o].vip = edge[o].vip
        BY <1>3, <2>4, <3>2, Zenon DEF NewEdge, KeepsEdges
      <4>2. edge[o] \in Edge
        BY <4>1, Zenon DEF IInv, TablesTyped
      <4>3. edge[o].mac \in Macs /\ edge[o].vip \in VIPs
        BY <4>2, Zenon DEF Edge
      <4>4. edge[o].vip = leases[edge[o].mac]
        BY <4>1, Zenon DEF IInv, VirtualIPsAgree
      <4> QED
        BY <2>1, <2>2, <4>1, <4>3, <4>4, Zenon
    <3> QED
      BY <3>1, <3>2, Zenon
  <2>5. VirtualIPsAgree'
    BY <2>3, <2>4, Zenon DEF VirtualIPsAgree
  <2> QED
    BY <1>3, <2>5, Zenon DEF NewEdge, IInv
<1> QED
  BY <1>1, <1>2, <1>3, Steps, Zenon

\* Whatever the interleaving of registrations, unregistrations, cleanups and
\* restarts, every Edge object shows the virtual IP leased to its MAC address
\* and no two MAC addresses are leased the same one (EdgeUpdate, Unregister).
THEOREM VirtualIPsAlwaysAgree == Spec => []VirtualIPsAgree
<1>1. IInv => VirtualIPsAgree
  BY Zenon DEF IInv
<1> QED
  BY <1>1, InitInv, NextInv, PTL DEF Spec

-----------------------------------------------------------------------------
(* The refinement *)

\* The initial state is one of AddressLease.
LEMMA LeaseInit == Init => Lease!Init
<1> SUFFICES ASSUME Init PROVE Lease!Init
  OBVIOUS
<1>1. \A m \in Macs : HeldBy(m) = {}
  BY Zenon DEF Init, HeldBy
<1> QED
  BY <1>1, Zenon DEF Init, Lease!Init

\* Every step is a step of AddressLease, or none.
LEMMA LeaseStep ==
    IInv /\ IInv' /\ [Next]_vars
      => [Lease!Next]_<<leases, [m \in Macs |-> HeldBy(m)]>>
<1> SUFFICES ASSUME IInv, IInv', [Next]_vars
             PROVE  [Lease!Next]_<<leases, [m \in Macs |-> HeldBy(m)]>>
  BY Zenon
<1> DEFINE held == [m \in Macs |-> HeldBy(m)]
<1>1. held' \in [Macs -> SUBSET VIPs]
  <2>1. ASSUME NEW m \in Macs
        PROVE  HeldBy(m)' \subseteq VIPs
    BY Zenon DEF IInv, TablesTyped, HeldBy, Edge
  <2> QED
    BY <2>1, Zenon
<1>2. CASE UNCHANGED vars
  BY <1>2, Zenon DEF vars, HeldBy
<1>3. ASSUME Harmless
      PROVE  Lease!Forget
  <2>1. ASSUME NEW m \in Macs
        PROVE  HeldBy(m)' \subseteq HeldBy(m)
    BY <1>3 DEF Harmless, KeepsEdges, HeldBy
  <2>2. \A m \in Macs : held'[m] \subseteq held[m]
    BY <2>1, Zenon
  <2> QED
    BY <1>1, <1>3, <2>2, Zenon DEF Harmless, Lease!Forget
<1>4. ASSUME NEW m \in Macs, NEW n \in Eobjs, NewEdge(m, n)
      PROVE  Lease!Register(m)
  <2> DEFINE vip == leases'[m]
  <2>1. /\ leases' = [leases EXCEPT ![m] = vip]
        /\ leases \in [Macs -> VIPs \cup {None}]
        /\ vip \in RequestIP(m)
    BY <1>4, Zenon DEF NewEdge, IInv, TablesTyped
  <2>2. Lease!Grant(m) \/ (leases[m] # None /\ UNCHANGED leases)
    <3> HIDE DEF vip
    <3>1. CASE leases[m] = None
      <4>1. vip \in VIPs /\ \A x \in Macs : leases[x] # vip
        BY <2>1, <3>1, Zenon DEF RequestIP
      <4> QED
        BY <2>1, <3>1, <4>1, Zenon DEF Lease!Grant
    <3>2. CASE leases[m] # None
      BY <2>1, <3>2, Zenon DEF RequestIP
    <3> QED
      BY <3>1, <3>2, Zenon
  <2>3. HeldBy(m)' \subseteq HeldBy(m) \cup {leases'[m]}
    BY <1>4 DEF NewEdge, KeepsEdges, HeldBy
  <2>4. ASSUME NEW x \in Macs \ {m}
        PROVE  HeldBy(x)' \subseteq HeldBy(x)
    BY <1>4 DEF NewEdge, KeepsEdges, HeldBy
  <2>5. /\ held'[m] \subseteq held[m] \cup {leases'[m]}
        /\ \A x \in Macs \ {m} : held'[x] \subseteq held[x]
    BY <2>3, <2>4, Zenon
  <2> QED
    BY <1>1, <2>2, <2>5, Zenon DEF Lease!Register
<1> QED
  BY <1>2, <1>3, <1>4, Steps, Zenon DEF Lease!Next

\* The supernode's registry implements the lease of addresses: no step of any
\* handler, cleanup or restart takes a lease back, gives an address to a second
\* MAC address, or lets an Edge show another address than its lease.
THEOREM RegistryLeases == Spec => LeasesImplemented
<1> QED
  BY InitInv, NextInv, LeaseInit, LeaseStep, PTL DEF Spec, LeasesImplemented, Lease!Spec

=============================================================================
