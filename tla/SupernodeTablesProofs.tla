------------------------ MODULE SupernodeTablesProofs ------------------------
(* The supernode's tables stay in agreement (TablesAgree, CachedInfosExact,  *)
(* IndexedAtUnregister), for every set of edges, communities, processes and  *)
(* objects.                                                                  *)
EXTENDS SupernodeRegistryProofs

(***************************************************************************)
(* The inductive invariant.                                                *)
(***************************************************************************)

\* The edges, as <<Community, MAC address>>, that a handler has looked up and
\* still works on.
Targets(t) == t.todo \cup (IF t.cm = None THEN {} ELSE {<<t.cm, t.mac>>})

\* A handler works on a Community from the step that finds or creates it on, and
\* CleanupStaleEdges never meets the same edge twice.
TargetsOK(t) ==
    /\ t.pc = "idle" => t = Idle
    /\ t.pc \in {"clean", "create"} => t.cm = None
    /\ t.pc \in {"update", "index", "unregister", "unindex", "refresh", "p2p"}
         => t.cm \in Cobjs
    /\ t.pc \notin {"clean", "unregister", "unindex"} => t.todo = {}
    /\ t.cm # None => \A x \in t.todo : x[2] # t.mac
    /\ \A x, y \in t.todo : x[2] = y[2] => x = y

Shapes ==
    /\ p2pInfos \in [Cobjs -> SUBSET Macs]
    /\ edgeCachedInfos \in [Macs -> {"none", "registered", "offline"}]
    /\ replaced \in BOOLEAN
    /\ overlapped \subseteq Macs
    /\ \A p \in Procs : TargetsOK(task[p])

\* A Community that nothing leads to is empty.
Collected == \A c \in Cobjs \ LiveCobjs : edges[c] = NoEdges /\ p2pInfos[c] = {}

\* A Community is the one of a single hash, for the table, for its own edges and
\* for the handlers that work on it.
OneHash ==
    /\ \A h, k \in Communities :
         communities[h] # None /\ communities[h] = communities[k] => h = k
    /\ \A h \in Communities, m \in Macs :
         communities[h] # None /\ edges[communities[h]][m] # None => CommunityOf[m] = h
    /\ \A p \in Procs, h \in Communities : \A x \in Targets(task[p]) :
         communities[h] = x[1] => CommunityOf[x[2]] = h

\* Two handlers that work on an edge at a time have been noticed.
Solo ==
    \A p, q \in Procs, m \in Macs \ overlapped :
      Busy(task[p], m) /\ Busy(task[q], m) => p = q

\* As long as no Community was replaced, all edges are in the Community of the
\* table, and the handlers work on that one.
Unreplaced ==
    ~replaced =>
      /\ \A c \in Cobjs, m \in Macs :
           edges[c][m] # None => c = communities[CommunityOf[m]]
      /\ \A p \in Procs : \A x \in Targets(task[p]) :
           x[1] = communities[CommunityOf[x[2]]]

\* While a handler works on an edge of a Community that was replaced, no one
\* registers that edge with the new Community.
Displaced ==
    \A p \in Procs : \A x \in Targets(task[p]) :
      x[2] \notin overlapped /\ communities[CommunityOf[x[2]]] # x[1]
        => MemberOf(x[2]) = None

\* An edge of a Community is in edgesByMAC, or is about to enter it, and
\* whoever is going to take it out finds it there.
Indexed ==
    \A m \in Macs \ overlapped :
      /\ MemberOf(m) # None =>
           \/ edgesByMAC[m] # None
           \/ \E p \in Procs : task[p].pc = "index" /\ task[p].mac = m
      /\ \A p \in Procs : \A x \in Targets(task[p]) :
           x[2] = m /\ edges[x[1]][m] # None
             => edgesByMAC[m] # None \/ task[p].pc = "index"
      /\ \A p \in Procs : task[p].pc = "unindex" /\ task[p].mac = m
           => edgesByMAC[m] # None /\ MemberOf(m) = None

\* While a handler has entered an edge in the Community and not yet in
\* edgesByMAC, or the reverse, it knows which; P2P informations are those of
\* members.
Agree ==
    ~replaced => \A m \in Macs \ overlapped :
      /\ (\A p \in Procs : task[p].mac = m => task[p].pc \notin {"index", "unindex"})
           => edgesByMAC[m] = MemberOf(m)
      /\ \A p \in Procs : task[p].mac = m =>
           /\ task[p].pc = "index" => task[p].obj = MemberOf(m)
           /\ task[p].pc = "unindex" => MemberOf(m) = None
           /\ task[p].pc = "p2p" => MemberOf(m) # None
      /\ \A c \in Cobjs : m \in p2pInfos[c] =>
           c = communities[CommunityOf[m]] /\ MemberOf(m) # None

TInv ==
    /\ Shapes /\ Collected /\ OneHash /\ Solo /\ Unreplaced
    /\ Displaced /\ Indexed /\ Agree /\ CachedInfosExact

-----------------------------------------------------------------------------
(* Handlers and what they work on *)

\* A handler works on edges of Communities, and counts as busy with them.
LEMMA TargetsBusy ==
    ASSUME NEW t, TaskOK(t), TargetsOK(t), NEW x \in Targets(t)
    PROVE  /\ x[1] \in Cobjs /\ x[2] \in Macs /\ x = <<x[1], x[2]>>
           /\ Busy(t, x[2])
<1> USE SupernodeRegistryAssumption
<1>1. t.pc \in PCs /\ t.todo \subseteq Cobjs \X Macs
  BY Zenon DEF TaskOK, Task
<1>2. CASE x \in t.todo
  <2>1. t.pc # "idle"
    BY <1>2, Zenon DEF TargetsOK
  <2> QED
    BY <1>1, <1>2, <2>1 DEF Busy
<1>3. CASE x \notin t.todo
  <2>1. t.cm # None /\ x = <<t.cm, t.mac>>
    BY <1>3, Zenon DEF Targets
  <2>2. t.pc # "idle"
    BY <2>1 DEF TargetsOK, Idle
  <2>3. t.cm \in Cobjs /\ t.mac \in Macs
    BY <1>1, <2>1, <2>2, Zenon DEF TargetsOK, TaskOK, PCs
  <2> QED
    BY <2>1, <2>2, <2>3, Zenon DEF Busy
<1> QED
  BY <1>2, <1>3, Zenon

\* The Communities in use are those of the table and those handlers work on.
InUse ==
    /\ \A h \in Communities : communities[h] \in LiveCobjs
    /\ \A p \in Procs : \A x \in Targets(task[p]) : x[1] \in LiveCobjs
    /\ \A c \in Cobjs : c \in LiveCobjs =>
         \/ \E h \in Communities : communities[h] = c
         \/ \E p \in Procs : \E x \in Targets(task[p]) : x[1] = c

\* What LiveCobjs, the Communities that are not garbage, consists of.
LEMMA LiveFacts == InUse
<1> USE SupernodeRegistryAssumption
<1>1. \A h \in Communities : communities[h] \in LiveCobjs
  BY Zenon DEF LiveCobjs
<1>2. ASSUME NEW p \in Procs, NEW x \in Targets(task[p])
      PROVE  x[1] \in LiveCobjs
  <2>1. CASE x \in task[p].todo
    BY <2>1 DEF LiveCobjs
  <2>2. CASE x \notin task[p].todo
    BY <2>2, <1>2 DEF LiveCobjs, Targets
  <2> QED
    BY <2>1, <2>2, Zenon
<1>3. ASSUME NEW c \in Cobjs, c \in LiveCobjs
      PROVE  \/ \E h \in Communities : communities[h] = c
             \/ \E p \in Procs : \E x \in Targets(task[p]) : x[1] = c
  <2>1. CASE \E h \in Communities : communities[h] = c
    BY <2>1, Zenon
  <2>2. CASE \E p \in Procs : task[p].cm = c
    <3>1. PICK p \in Procs : task[p].cm = c
      BY <2>2, Zenon
    <3>2. <<c, task[p].mac>> \in Targets(task[p])
      BY <3>1, Zenon DEF Targets
    <3> QED
      BY <3>2, Zenon
  <2>3. CASE \E p \in Procs : \E x \in task[p].todo : x[1] = c
    BY <2>3, Zenon DEF Targets
  <2> QED
    BY <1>3, <2>1, <2>2, <2>3 DEF LiveCobjs
<1> QED
  BY <1>1, <1>2, <1>3, Zenon DEF InUse

\* The same in the next state.
LEMMA LiveFactsNext == InUse'
  BY LiveFacts, PTL

\* A handler moves on: the other handlers stay where they are, and if one of
\* them works on the same edge, overlapped has noticed.
LEMMA GotoFacts ==
    ASSUME task \in [Procs -> Task], Solo, overlapped \subseteq Macs,
           NEW p \in Procs, NEW t, Goto(p, t)
    PROVE  /\ task'[p] = t
           /\ \A q \in Procs \ {p} : task'[q] = task[q]
           /\ overlapped \subseteq overlapped'
           /\ overlapped' \subseteq Macs
           /\ \A m \in Macs \ overlapped', q \in Procs \ {p} :
                Busy(t, m) => ~Busy(task[q], m)
           /\ Solo'
<1>1. /\ task' = [task EXCEPT ![p] = t]
      /\ overlapped' = overlapped \cup
           {m \in Macs : Busy(t, m) /\ \E q \in Procs \ {p} : Busy(task[q], m)}
  BY Zenon DEF Goto
<1>2. task'[p] = t /\ \A q \in Procs \ {p} : task'[q] = task[q]
  BY <1>1, Zenon
<1>3. /\ overlapped \subseteq overlapped' /\ overlapped' \subseteq Macs
      /\ \A m \in Macs \ overlapped', q \in Procs \ {p} :
           Busy(t, m) => ~Busy(task[q], m)
  BY <1>1, Zenon
<1>4. ASSUME NEW a \in Procs, NEW b \in Procs, NEW m \in Macs, m \notin overlapped',
             Busy(task'[a], m), Busy(task'[b], m)
      PROVE  a = b
  <2>1. CASE a # p /\ b # p
    BY <1>2, <1>3, <1>4, <2>1, Zenon DEF Solo
  <2>2. CASE a = p \/ b = p
    BY <1>2, <1>3, <1>4, <2>2, Zenon
  <2> QED
    BY <2>1, <2>2, Zenon
<1> QED
  BY <1>2, <1>3, <1>4, Zenon DEF Solo

\* Store keeps the contents of the Communities in use and empties the others.
LEMMA StoreCollects ==
    ASSUME NEW newEdges, NEW newInfos, NEW newEdge, Store(newEdges, newInfos, newEdge)
    PROVE  /\ Collected'
           /\ \A c \in Cobjs \cap LiveCobjs' :
                edges'[c] = newEdges[c] /\ p2pInfos'[c] = newInfos[c]
           /\ \A c \in Cobjs \ LiveCobjs' : edges'[c] = NoEdges /\ p2pInfos'[c] = {}
           /\ p2pInfos' = [c \in Cobjs |-> IF c \in LiveCobjs' THEN newInfos[c] ELSE {}]
  BY Zenon DEF Store, Collected

\* What Store keeps of the P2P informations has their type.
LEMMA StoreInfos ==
    ASSUME NEW newEdges, NEW newInfos, NEW newEdge, Store(newEdges, newInfos, newEdge),
           newInfos \in [Cobjs -> SUBSET Macs]
    PROVE  p2pInfos' \in [Cobjs -> SUBSET Macs]
<1>1. \A c \in Cobjs : newInfos[c] \in SUBSET Macs
  OBVIOUS
<1> QED
  BY <1>1, StoreCollects

\* What Store means for the table, for the handlers and for the others.
LEMMA StoreTables ==
    ASSUME IInv, IInv', NEW newEdges, NEW newInfos, NEW newEdge,
           Store(newEdges, newInfos, newEdge)
    PROVE  /\ \A h \in Communities : communities'[h] # None =>
                 edges'[communities'[h]] = newEdges[communities'[h]]
           /\ \A p \in Procs : \A x \in Targets(task'[p]) : x[1] \in Cobjs =>
                 edges'[x[1]] = newEdges[x[1]]
           /\ \A c \in Cobjs, m \in Macs :
                 edges'[c][m] # None => edges'[c][m] = newEdges[c][m]
           /\ \A c \in Cobjs, m \in Macs : m \in p2pInfos'[c] => m \in newInfos[c]
<1>1. \A h \in Communities : communities'[h] # None => communities'[h] \in Cobjs
  BY Zenon DEF IInv, TablesTyped
<1>2. \A m \in Macs : NoEdges[m] = None
  BY Zenon DEF NoEdges
<1> QED
  BY <1>1, <1>2, LiveFactsNext, StoreCollects DEF InUse

-----------------------------------------------------------------------------
(* Steps that leave the tables alone *)

\* A handler moves from task[p] to t and keeps its targets, or looks up new ones
\* in the table.  No edge enters or leaves a Community or edgesByMAC; a handler
\* at "p2p" may store the informations of its edge.
Quiet(p, t) ==
    /\ Goto(p, t) /\ TargetsOK(t)
    /\ UNCHANGED <<communities, edgesByMAC, edgeCachedInfos, replaced>>
    /\ Collected'
    /\ \A h \in Communities :
         communities[h] # None => edges'[communities[h]] = edges[communities[h]]
    /\ \A q \in Procs : \A x \in Targets(task'[q]) : edges'[x[1]] = edges[x[1]]
    /\ \A c \in Cobjs, m \in Macs : edges'[c][m] # None => edges'[c][m] = edges[c][m]
    /\ p2pInfos' \in [Cobjs -> SUBSET Macs]
    /\ \A c \in Cobjs, m \in Macs : m \in p2pInfos'[c] =>
         \/ m \in p2pInfos[c]
         \/ task[p].pc = "p2p" /\ c = task[p].cm /\ m = task[p].mac
    /\ task[p].pc \notin {"index", "unindex"} /\ t.pc # "unindex"
    /\ \A x \in Targets(t) :
         x \in Targets(task[p]) \/ x[1] = communities[CommunityOf[x[2]]]
    /\ t.pc = "index" => t.obj = edges[t.cm][t.mac]
    /\ t.pc = "p2p" => MemberOf(t.mac) # None

\* Such a step keeps the invariant.
LEMMA QuietKeeps ==
    ASSUME IInv, IInv', TInv, NEW p \in Procs, NEW t, Quiet(p, t)
    PROVE  TInv'
<1> USE SupernodeRegistryAssumption
<1>1. /\ task'[p] = t
      /\ \A q \in Procs \ {p} : task'[q] = task[q]
      /\ overlapped \subseteq overlapped'
      /\ overlapped' \subseteq Macs
      /\ \A m \in Macs \ overlapped', q \in Procs \ {p} : Busy(t, m) => ~Busy(task[q], m)
      /\ Solo'
  BY GotoFacts, Zenon DEF IInv, TablesTyped, TInv, Shapes, Quiet
<1>2. UNCHANGED <<communities, edgesByMAC, edgeCachedInfos, replaced>>
  BY Zenon DEF Quiet
<1>3. \A m \in Macs : MemberOf(m)' = MemberOf(m)
  BY <1>2 DEF Quiet, MemberOf
<1>4. /\ \A q \in Procs : TaskOK(task'[q]) /\ TargetsOK(task'[q])
      /\ \A q \in Procs : TaskOK(task[q]) /\ TargetsOK(task[q])
  BY <1>1, Zenon DEF IInv, TablesTyped, Quiet, TInv, Shapes
<1>5. \A q \in Procs : \A x \in Targets(task'[q]) :
         /\ x[1] \in Cobjs /\ x[2] \in Macs /\ Busy(task'[q], x[2])
         /\ edges'[x[1]] = edges[x[1]]
         /\ \/ x \in Targets(task[q])
            \/ q = p /\ x[1] = communities[CommunityOf[x[2]]]
  <2> SUFFICES ASSUME NEW q \in Procs, NEW x \in Targets(task'[q])
               PROVE  /\ x[1] \in Cobjs /\ x[2] \in Macs /\ Busy(task'[q], x[2])
                      /\ edges'[x[1]] = edges[x[1]]
                      /\ \/ x \in Targets(task[q])
                         \/ q = p /\ x[1] = communities[CommunityOf[x[2]]]
    BY Zenon
  <2>1. x[1] \in Cobjs /\ x[2] \in Macs /\ Busy(task'[q], x[2])
    BY <1>4, TargetsBusy, Zenon
  <2>2. edges'[x[1]] = edges[x[1]]
    BY Zenon DEF Quiet
  <2>3. x \in Targets(task[q]) \/ (q = p /\ x[1] = communities[CommunityOf[x[2]]])
    BY <1>1, Zenon DEF Quiet
  <2> QED
    BY <2>1, <2>2, <2>3, Zenon
<1>6. Shapes'
  BY <1>1, <1>2, <1>4, Zenon DEF Shapes, TInv, Quiet
<1>7. Collected'
  BY Zenon DEF Quiet
<1>8. OneHash'
  <2>1. \A h \in Communities, m \in Macs :
           communities'[h] # None /\ edges'[communities'[h]][m] # None => CommunityOf[m] = h
    BY <1>2 DEF Quiet, TInv, OneHash
  <2>2. ASSUME NEW q \in Procs, NEW h \in Communities, NEW x \in Targets(task'[q]),
               communities'[h] = x[1]
        PROVE  CommunityOf[x[2]] = h
    <3>1. CASE x \in Targets(task[q])
      BY <1>2, <2>2, <3>1 DEF TInv, OneHash
    <3>2. CASE x[1] = communities[CommunityOf[x[2]]]
      BY <1>2, <1>5, <2>2, <3>2 DEF TInv, OneHash
    <3> QED
      BY <1>5, <3>1, <3>2, Zenon
  <2>3. \A h, k \in Communities :
           communities'[h] # None /\ communities'[h] = communities'[k] => h = k
    BY <1>2, Zenon DEF TInv, OneHash
  <2> QED
    BY <2>1, <2>2, <2>3, Zenon DEF OneHash
<1>9. Unreplaced'
  <2> SUFFICES ASSUME ~replaced
               PROVE  /\ \A c \in Cobjs, m \in Macs :
                           edges'[c][m] # None => c = communities[CommunityOf[m]]
                      /\ \A q \in Procs : \A x \in Targets(task'[q]) :
                           x[1] = communities[CommunityOf[x[2]]]
    BY <1>2, Zenon DEF Unreplaced
  <2>1. \A c \in Cobjs, m \in Macs : edges'[c][m] # None => c = communities[CommunityOf[m]]
    BY DEF Quiet, TInv, Unreplaced
  <2>2. \A q \in Procs : \A x \in Targets(task'[q]) : x[1] = communities[CommunityOf[x[2]]]
    BY <1>5, Zenon DEF TInv, Unreplaced
  <2> QED
    BY <2>1, <2>2, Zenon
<1>10. Displaced'
  BY <1>1, <1>2, <1>3, <1>5 DEF TInv, Displaced
<1>11. Indexed'
  <2> SUFFICES ASSUME NEW m \in Macs, m \notin overlapped'
               PROVE  /\ MemberOf(m)' # None =>
                           \/ edgesByMAC'[m] # None
                           \/ \E q \in Procs : task'[q].pc = "index" /\ task'[q].mac = m
                      /\ \A q \in Procs : \A x \in Targets(task'[q]) :
                           x[2] = m /\ edges'[x[1]][m] # None
                             => edgesByMAC'[m] # None \/ task'[q].pc = "index"
                      /\ \A q \in Procs : task'[q].pc = "unindex" /\ task'[q].mac = m
                           => edgesByMAC'[m] # None /\ MemberOf(m)' = None
    BY Zenon DEF Indexed
  <2>1. task[p].pc # "index" /\ t.pc # "unindex" /\ m \notin overlapped
    BY <1>1, Zenon DEF Quiet
  <2>2. MemberOf(m) # None => \/ edgesByMAC[m] # None
                              \/ \E q \in Procs : task[q].pc = "index" /\ task[q].mac = m
    BY <2>1, Zenon DEF TInv, Indexed
  <2>3. ASSUME NEW q \in Procs, NEW x \in Targets(task'[q]), x[2] = m, edges'[x[1]][m] # None
        PROVE  edgesByMAC[m] # None \/ task'[q].pc = "index"
    <3>1. CASE x \in Targets(task[q])
      BY <1>1, <1>5, <2>1, <2>3, <3>1 DEF TInv, Indexed
    <3>2. CASE q = p /\ x[1] = communities[CommunityOf[m]]
      <4>1. MemberOf(m) # None
        BY <1>5, <2>3, <3>2 DEF MemberOf
      <4>2. ASSUME NEW r \in Procs, task[r].pc = "index", task[r].mac = m
            PROVE  FALSE
        <5>1. r # p /\ Busy(task[r], m)
          BY <2>1, <4>2, Zenon DEF Busy
        <5> QED
          BY <1>1, <1>5, <2>3, <3>2, <5>1, Zenon
      <4> QED
        BY <2>2, <4>1, <4>2, Zenon
    <3> QED
      BY <1>5, <2>3, <3>1, <3>2, Zenon
  <2>4. \A q \in Procs : task'[q].pc = "unindex" /\ task'[q].mac = m
           => edgesByMAC[m] # None /\ MemberOf(m) = None
    BY <1>1, <2>1 DEF TInv, Indexed
  <2>5. MemberOf(m) # None =>
           \/ edgesByMAC[m] # None
           \/ \E q \in Procs : task'[q].pc = "index" /\ task'[q].mac = m
    BY <1>1, <2>1, <2>2, Zenon
  <2> QED
    BY <1>2, <1>3, <2>3, <2>4, <2>5, Zenon
<1>12. Agree'
  <2> SUFFICES ASSUME ~replaced, NEW m \in Macs, m \notin overlapped'
               PROVE  /\ (\A q \in Procs : task'[q].mac = m =>
                            task'[q].pc \notin {"index", "unindex"})
                           => edgesByMAC'[m] = MemberOf(m)'
                      /\ \A q \in Procs : task'[q].mac = m =>
                           /\ task'[q].pc = "index" => task'[q].obj = MemberOf(m)'
                           /\ task'[q].pc = "unindex" => MemberOf(m)' = None
                           /\ task'[q].pc = "p2p" => MemberOf(m)' # None
                      /\ \A c \in Cobjs : m \in p2pInfos'[c] =>
                           c = communities'[CommunityOf[m]] /\ MemberOf(m)' # None
    BY <1>2, Zenon DEF Agree
  <2>1. /\ task[p].pc \notin {"index", "unindex"} /\ t.pc # "unindex"
        /\ m \notin overlapped
    BY <1>1, Zenon DEF Quiet
  <2>2. /\ (\A q \in Procs : task[q].mac = m => task[q].pc \notin {"index", "unindex"})
             => edgesByMAC[m] = MemberOf(m)
        /\ \A q \in Procs : task[q].mac = m =>
             /\ task[q].pc = "index" => task[q].obj = MemberOf(m)
             /\ task[q].pc = "unindex" => MemberOf(m) = None
             /\ task[q].pc = "p2p" => MemberOf(m) # None
        /\ \A c \in Cobjs : m \in p2pInfos[c] =>
             c = communities[CommunityOf[m]] /\ MemberOf(m) # None
    BY <2>1, Zenon DEF TInv, Agree
  <2>3. (\A q \in Procs : task'[q].mac = m => task'[q].pc \notin {"index", "unindex"})
          => edgesByMAC[m] = MemberOf(m)
    BY <1>1, <2>1, <2>2, Zenon
  <2>4. t.pc = "index" /\ t.mac = m => t.obj = MemberOf(m)
    <3> SUFFICES ASSUME t.pc = "index", t.mac = m
                 PROVE  t.obj = MemberOf(m)
      BY Zenon
    <3>1. t.cm \in Cobjs /\ t.obj = edges[t.cm][m]
      BY Zenon DEF Quiet, TargetsOK
    <3>2. <<t.cm, m>> \in Targets(t)
      BY <3>1, Zenon DEF Targets
    <3>3. t.cm = communities[CommunityOf[m]]
      BY <1>1, <1>2, <1>9, <3>2 DEF Unreplaced
    <3> QED
      BY <3>1, <3>3, Zenon DEF MemberOf
  <2>5. t.pc = "p2p" /\ t.mac = m => MemberOf(m) # None
    BY Zenon DEF Quiet
  <2>6. \A q \in Procs : task'[q].mac = m =>
           /\ task'[q].pc = "index" => task'[q].obj = MemberOf(m)
           /\ task'[q].pc = "unindex" => MemberOf(m) = None
           /\ task'[q].pc = "p2p" => MemberOf(m) # None
    BY <1>1, <2>1, <2>2, <2>4, <2>5, Zenon
  <2>7. ASSUME NEW c \in Cobjs, m \in p2pInfos'[c]
        PROVE  c = communities[CommunityOf[m]] /\ MemberOf(m) # None
    <3>1. CASE m \in p2pInfos[c]
      BY <2>2, <3>1, Zenon
    <3>2. CASE task[p].pc = "p2p" /\ c = task[p].cm /\ m = task[p].mac
      <4>1. <<c, m>> \in Targets(task[p])
        BY <3>2, Zenon DEF Targets
      <4> QED
        BY <2>2, <3>2, <4>1, Zenon DEF TInv, Unreplaced
    <3> QED
      BY <2>7, <3>1, <3>2, Zenon DEF Quiet
  <2> QED
    BY <1>2, <1>3, <2>3, <2>6, <2>7, Zenon
<1>13. CachedInfosExact'
  BY <1>2, <1>3, Zenon DEF TInv, CachedInfosExact
<1> QED
  BY <1>1, <1>6, <1>7, <1>8, <1>9, <1>10, <1>11, <1>12, <1>13, Zenon DEF TInv

\* A step that only reads, and forgets no target.
LEMMA ReadQuiet ==
    ASSUME IInv, TInv, NEW p \in Procs, NEW t, Goto(p, t), TargetsOK(t),
           UNCHANGED <<communities, edges, p2pInfos, edgesByMAC, edgeCachedInfos, replaced>>,
           task[p].pc \notin {"index", "unindex"},
           t.pc \notin {"index", "unindex"},
           Targets(task[p]) \subseteq Targets(t),
           \A x \in Targets(t) :
             x \in Targets(task[p]) \/ x[1] = communities[CommunityOf[x[2]]],
           t.pc = "p2p" => MemberOf(t.mac) # None
    PROVE  Quiet(p, t)
<1>1. /\ task'[p] = t
      /\ \A q \in Procs \ {p} : task'[q] = task[q]
  BY GotoFacts, Zenon DEF IInv, TablesTyped, TInv, Shapes
<1>2. \A c \in Cobjs : c \in LiveCobjs => c \in LiveCobjs'
  <2> SUFFICES ASSUME NEW c \in Cobjs, c \in LiveCobjs
               PROVE  c \in LiveCobjs'
    BY Zenon
  <2>1. CASE \E h \in Communities : communities[h] = c
    BY <2>1, LiveFactsNext, Zenon DEF InUse
  <2>2. CASE \E q \in Procs : \E x \in Targets(task[q]) : x[1] = c
    <3>1. PICK q \in Procs : \E x \in Targets(task[q]) : x[1] = c
      BY <2>2, Zenon
    <3>2. PICK x \in Targets(task[q]) : x[1] = c
      BY <3>1, Zenon
    <3>3. x \in Targets(task'[q])
      BY <1>1, <3>2, Zenon
    <3> QED
      BY <3>2, <3>3, LiveFactsNext, Zenon DEF InUse
  <2> QED
    BY <2>1, <2>2, LiveFacts, Zenon DEF InUse
<1>3. Collected'
  BY <1>2, Zenon DEF TInv, Collected
<1>4. p2pInfos' \in [Cobjs -> SUBSET Macs]
  BY Zenon DEF TInv, Shapes
<1> QED
  BY <1>3, <1>4, Zenon DEF Quiet

\* A step that stores the edges as they are.
LEMMA StoreQuiet ==
    ASSUME IInv, IInv', TInv, NEW p \in Procs, NEW t, Goto(p, t), TargetsOK(t),
           NEW newInfos, NEW newEdge, Store(edges, newInfos, newEdge),
           UNCHANGED <<communities, edgesByMAC, edgeCachedInfos, replaced>>,
           newInfos \in [Cobjs -> SUBSET Macs],
           \A c \in Cobjs, m \in Macs : m \in newInfos[c] =>
             \/ m \in p2pInfos[c]
             \/ task[p].pc = "p2p" /\ c = task[p].cm /\ m = task[p].mac,
           task[p].pc \notin {"index", "unindex"},
           t.pc \notin {"unindex", "p2p"},
           Targets(t) \subseteq Targets(task[p]),
           t.pc = "index" => t.obj = edges[t.cm][t.mac]
    PROVE  Quiet(p, t)
<1>1. /\ task'[p] = t
      /\ \A q \in Procs \ {p} : task'[q] = task[q]
  BY GotoFacts, Zenon DEF IInv, TablesTyped, TInv, Shapes
<1>2. \A q \in Procs : TaskOK(task'[q]) /\ TargetsOK(task'[q])
  BY <1>1, Zenon DEF IInv, TablesTyped, TInv, Shapes
<1>3. \A q \in Procs : \A x \in Targets(task'[q]) : edges'[x[1]] = edges[x[1]]
  <2> SUFFICES ASSUME NEW q \in Procs, NEW x \in Targets(task'[q])
               PROVE  edges'[x[1]] = edges[x[1]]
    BY Zenon
  <2>1. x[1] \in Cobjs
    BY <1>2, TargetsBusy, Zenon
  <2> QED
    BY <2>1, StoreTables
<1>4. \A h \in Communities :
         communities[h] # None => edges'[communities[h]] = edges[communities[h]]
  BY StoreTables
<1>5. \A c \in Cobjs, m \in Macs : edges'[c][m] # None => edges'[c][m] = edges[c][m]
  BY StoreTables
<1>6. Collected' /\ p2pInfos' \in [Cobjs -> SUBSET Macs]
  BY StoreCollects
<1>7. \A c \in Cobjs, m \in Macs : m \in p2pInfos'[c] => m \in newInfos[c]
  BY StoreTables, Zenon
<1> QED
  BY <1>3, <1>4, <1>5, <1>6, <1>7, Zenon DEF Quiet

\* The first steps of the handlers of messages.
LEMMA RequestKeeps ==
    ASSUME IInv, IInv', TInv, NEW p \in Procs, Request(p)
    PROVE  TInv'
<1> USE SupernodeRegistryAssumption
<1> DEFINE c(m) == communities[CommunityOf[m]]
<1>1. task[p].pc = "idle" /\ task[p] = Idle
  BY Zenon DEF Request, RegisterStart, HeartbeatStart, UnregisterStart,
     P2PStateInfoStart, TInv, Shapes, TargetsOK
<1>2. Targets(task[p]) = {} /\ Idle.pc = "idle"
  BY <1>1 DEF Targets, Idle
<1>3. \A m \in Macs : c(m) \in Cobjs \cup {None}
  BY Zenon DEF IInv, TablesTyped
<1>4. ASSUME NEW m \in Macs, NEW from \in Sources(m), RegisterStart(p, m, from)
      PROVE  TInv'
  <2> DEFINE t == [Idle EXCEPT !.pc = IF c(m) = None THEN "create" ELSE "update",
                               !.mac = m, !.from = from, !.cm = c(m)]
  <2>1. t.pc \in {"create", "update"} /\ TargetsOK(t)
    BY <1>3, Zenon DEF TargetsOK, Idle
  <2>2. Targets(t) \subseteq {<<c(m), m>>}
    BY Zenon DEF Targets, Idle
  <2>3. /\ Goto(p, t)
        /\ UNCHANGED <<communities, edges, p2pInfos, edgesByMAC, edgeCachedInfos, replaced>>
    BY <1>4, Zenon DEF RegisterStart
  <2> HIDE DEF t
  <2>4. Quiet(p, t)
    BY <1>1, <1>2, <2>1, <2>2, <2>3, ReadQuiet
  <2> QED
    BY <2>4, QuietKeeps, Zenon
<1>5. ASSUME NEW m \in Macs, NEW from \in Sources(m), HeartbeatStart(p, m, from)
      PROVE  TInv'
  <2> DEFINE t == [Idle EXCEPT !.pc = "refresh", !.mac = m, !.from = from, !.cm = c(m)]
  <2>1. c(m) \in Cobjs
    BY <1>3, <1>5, Zenon DEF HeartbeatStart, Known
  <2>2. t.pc = "refresh" /\ TargetsOK(t)
    BY <2>1, Zenon DEF TargetsOK, Idle
  <2>3. Targets(t) \subseteq {<<c(m), m>>}
    BY Zenon DEF Targets, Idle
  <2>4. /\ Goto(p, t)
        /\ UNCHANGED <<communities, edges, p2pInfos, edgesByMAC, edgeCachedInfos, replaced>>
    BY <1>5, Zenon DEF HeartbeatStart
  <2> HIDE DEF t
  <2>5. Quiet(p, t)
    BY <1>1, <1>2, <2>2, <2>3, <2>4, ReadQuiet
  <2> QED
    BY <2>5, QuietKeeps
<1>6. ASSUME NEW m \in Macs, UnregisterStart(p, m)
      PROVE  TInv'
  <2> DEFINE t == [Idle EXCEPT !.pc = "unregister", !.mac = m, !.cm = c(m)]
  <2>1. c(m) \in Cobjs
    BY <1>3, <1>6, Zenon DEF UnregisterStart, Known
  <2>2. t.pc = "unregister" /\ TargetsOK(t)
    BY <2>1, Zenon DEF TargetsOK, Idle
  <2>3. Targets(t) \subseteq {<<c(m), m>>}
    BY Zenon DEF Targets, Idle
  <2>4. /\ Goto(p, t)
        /\ UNCHANGED <<communities, edges, p2pInfos, edgesByMAC, edgeCachedInfos, replaced>>
    BY <1>6, Zenon DEF UnregisterStart
  <2> HIDE DEF t
  <2>5. Quiet(p, t)
    BY <1>1, <1>2, <2>2, <2>3, <2>4, ReadQuiet
  <2> QED
    BY <2>5, QuietKeeps, Zenon
<1>7. ASSUME NEW m \in Macs, P2PStateInfoStart(p, m)
      PROVE  TInv'
  <2> DEFINE t == [Idle EXCEPT !.pc = "p2p", !.mac = m, !.cm = c(m)]
  <2>1. c(m) \in Cobjs /\ MemberOf(m) # None
    BY <1>3, <1>7, Zenon DEF P2PStateInfoStart, Known, MemberOf
  <2>2. t.pc = "p2p" /\ t.mac = m /\ TargetsOK(t)
    BY <2>1, Zenon DEF TargetsOK, Idle
  <2>3. Targets(t) \subseteq {<<c(m), m>>}
    BY Zenon DEF Targets, Idle
  <2>4. /\ Goto(p, t)
        /\ UNCHANGED <<communities, edges, p2pInfos, edgesByMAC, edgeCachedInfos, replaced>>
    BY <1>7, Zenon DEF P2PStateInfoStart
  <2> HIDE DEF t
  <2>5. Quiet(p, t)
    BY <1>1, <1>2, <2>1, <2>2, <2>3, <2>4, ReadQuiet
  <2> QED
    BY <2>5, QuietKeeps
<1> QED
  BY <1>4, <1>5, <1>6, <1>7, Zenon DEF Request

\* CleanupStaleEdges collects edges of the table's Communities, each once, and
\* goes on with one of them.
LEMMA CleanupKeeps ==
    ASSUME IInv, IInv', TInv, NEW p \in Procs, CleanupStart(p) \/ CleanupNext(p)
    PROVE  TInv'
<1> USE SupernodeRegistryAssumption
<1>1. CASE CleanupStart(p)
  <2> DEFINE cms == {communities[h] : h \in Communities} \ {None}
             stale == {x \in cms \X Macs :
                         edges[x[1]][x[2]] # None /\ Stale(edges[x[1]][x[2]])}
             t == [Idle EXCEPT !.pc = "clean", !.todo = stale]
  <2>1. \A x \in stale : /\ x \in Cobjs \X Macs
                         /\ x[1] = communities[CommunityOf[x[2]]]
    BY DEF IInv, TablesTyped, TInv, OneHash
  <2>2. /\ Goto(p, t) /\ task[p].pc = "idle"
        /\ UNCHANGED <<communities, edges, p2pInfos, edgesByMAC, edgeCachedInfos, replaced>>
    BY <1>1, Zenon DEF CleanupStart
  <2> HIDE DEF stale
  <2>3. \A x, y \in stale : x[2] = y[2] => x = y
    BY <2>1
  <2>4. t.pc = "clean" /\ t.cm = None /\ t.todo = stale
    BY Zenon DEF Idle
  <2>5. TargetsOK(t) /\ Targets(t) = stale
    BY <2>3, <2>4, Zenon DEF TargetsOK, Targets
  <2>6. Targets(task[p]) = {}
    BY <2>2 DEF TInv, Shapes, TargetsOK, Targets, Idle
  <2> HIDE DEF t
  <2>7. Quiet(p, t)
    BY <2>1, <2>2, <2>4, <2>5, <2>6, ReadQuiet, Zenon
  <2> QED
    BY <2>7, QuietKeeps, Zenon
<1>2. CASE CleanupNext(p)
  <2>1. /\ task[p] \in Task /\ TargetsOK(task[p]) /\ task[p].pc = "clean"
        /\ task[p].cm = None
    BY <1>2, TaskFacts, Zenon DEF TInv, Shapes, CleanupNext, TargetsOK
  <2>2. PICK x \in task[p].todo :
          Goto(p, [task[p] EXCEPT !.pc = "unregister", !.cm = x[1], !.mac = x[2],
                                  !.todo = @ \ {x}])
    BY <1>2, Zenon DEF CleanupNext
  <2> DEFINE t == [task[p] EXCEPT !.pc = "unregister", !.cm = x[1], !.mac = x[2],
                                  !.todo = @ \ {x}]
  <2>3. x \in Cobjs \X Macs
    BY <2>1, Zenon DEF Task
  <2>4. /\ t.pc = "unregister" /\ t.cm = x[1] /\ t.mac = x[2]
        /\ t.todo = task[p].todo \ {x}
    BY <2>1, Zenon DEF Task
  <2>5. /\ Goto(p, t)
        /\ UNCHANGED <<communities, edges, p2pInfos, edgesByMAC, edgeCachedInfos, replaced>>
    BY <1>2, <2>2, Zenon DEF CleanupNext
  <2> HIDE DEF t
  <2>6. TargetsOK(t)
    BY <2>1, <2>3, <2>4, Zenon DEF TargetsOK
  <2>7. Targets(t) = Targets(task[p])
    BY <2>1, <2>3, <2>4 DEF Targets
  <2>8. Quiet(p, t)
    BY <2>1, <2>4, <2>5, <2>6, <2>7, ReadQuiet, Zenon
  <2> QED
    BY <2>8, QuietKeeps, Zenon
<1> QED
  BY <1>1, <1>2, Zenon

\* A handler that ends, and one that goes on with CleanupStaleEdges.
LEMMA DoneTargets ==
    ASSUME NEW t, TaskOK(t), TargetsOK(t)
    PROVE  /\ TargetsOK(Idle) /\ Targets(Idle) = {} /\ Idle.pc = "idle"
           /\ TargetsOK(Done(t)) /\ Targets(Done(t)) = t.todo
           /\ Done(t).pc \in {"idle", "clean"} /\ Done(t).cm = None
           /\ Done(t).mac = None
<1>1. TargetsOK(Idle) /\ Targets(Idle) = {} /\ Idle.pc = "idle"
  BY Zenon DEF TargetsOK, Targets, Idle
<1>2. CASE t.todo = {}
  BY <1>1, <1>2, Zenon DEF Done, Idle
<1>3. CASE t.todo # {}
  <2> DEFINE d == [Idle EXCEPT !.pc = "clean", !.todo = t.todo]
  <2>1. d.pc = "clean" /\ d.cm = None /\ d.mac = None /\ d.todo = t.todo
    BY Zenon DEF Idle
  <2>2. Done(t) = d
    BY <1>3, Zenon DEF Done
  <2> HIDE DEF d
  <2> QED
    BY <1>1, <2>1, <2>2, Zenon DEF TargetsOK, Targets
<1> QED
  BY <1>2, <1>3, Zenon

\* RefreshEdge, SetP2PInfosFor, and an Unregister that finds nothing.
LEMMA StoresKeep ==
    ASSUME IInv, IInv', TInv, NEW p \in Procs,
           \/ RefreshEdge(p)
           \/ SetP2PInfos(p)
           \/ CommunityUnregister(p) /\ edges[task[p].cm][task[p].mac] = None
    PROVE  TInv'
<1>1. TaskOK(task[p]) /\ TargetsOK(task[p]) /\ task[p] \in Task
  BY TaskFacts, Zenon DEF TInv, Shapes
<1>2. p2pInfos \in [Cobjs -> SUBSET Macs]
  BY Zenon DEF TInv, Shapes
<1>3. CASE RefreshEdge(p)
  <2>1. PICK newEdge : Store(edges, p2pInfos, newEdge)
    BY <1>3, Zenon DEF RefreshEdge
  <2>2. /\ Goto(p, Idle) /\ task[p].pc = "refresh"
        /\ UNCHANGED <<communities, edgesByMAC, edgeCachedInfos, replaced>>
    BY <1>3, Zenon DEF RefreshEdge
  <2>3. Quiet(p, Idle)
    BY <1>1, <1>2, <2>1, <2>2, DoneTargets, StoreQuiet, Zenon
  <2> QED
    BY <2>3, QuietKeeps, Zenon
<1>4. CASE SetP2PInfos(p)
  <2> DEFINE newInfos == [p2pInfos EXCEPT ![task[p].cm] = @ \cup {task[p].mac}]
  <2>1. /\ Goto(p, Idle) /\ task[p].pc = "p2p" /\ Store(edges, newInfos, edge)
        /\ UNCHANGED <<communities, edgesByMAC, edgeCachedInfos, replaced>>
    BY <1>4, Zenon DEF SetP2PInfos
  <2>2. task[p].cm \in Cobjs /\ task[p].mac \in Macs
    BY <1>1, <2>1, Zenon DEF TaskOK
  <2>3. /\ newInfos \in [Cobjs -> SUBSET Macs]
        /\ \A c \in Cobjs, m \in Macs : m \in newInfos[c] =>
             \/ m \in p2pInfos[c]
             \/ c = task[p].cm /\ m = task[p].mac
    BY <1>2, <2>2, Zenon
  <2> HIDE DEF newInfos
  <2>4. Quiet(p, Idle)
    BY <1>1, <2>1, <2>3, DoneTargets, StoreQuiet
  <2> QED
    BY <2>4, QuietKeeps
<1>5. CASE CommunityUnregister(p) /\ edges[task[p].cm][task[p].mac] = None
  <2> DEFINE d == Done(task[p])
  <2>1. /\ Goto(p, d) /\ task[p].pc = "unregister" /\ Store(edges, p2pInfos, edge)
        /\ UNCHANGED <<communities, edgesByMAC, edgeCachedInfos, replaced>>
    BY <1>5, Zenon DEF CommunityUnregister
  <2>2. /\ TargetsOK(d) /\ Targets(d) \subseteq Targets(task[p])
        /\ d.pc \in {"idle", "clean"}
    BY <1>1, DoneTargets, Zenon DEF Targets
  <2> HIDE DEF d
  <2>3. Quiet(p, d)
    BY <1>2, <2>1, <2>2, StoreQuiet, Zenon
  <2> QED
    BY <2>3, QuietKeeps, Zenon
<1> QED
  BY <1>3, <1>4, <1>5, Zenon

\* EdgeUpdate of an edge the Community knows, and one that is refused.
LEMMA EdgeUpdateKeeps ==
    ASSUME IInv, IInv', TInv, NEW p \in Procs, EdgeUpdate(p),
           \/ edges[task[p].cm][task[p].mac] # None
           \/ RequestIP(task[p].mac) = {}
    PROVE  TInv'
<1> DEFINE o == edges[task[p].cm][task[p].mac]
<1>1. TaskOK(task[p]) /\ TargetsOK(task[p]) /\ task[p] \in Task
  BY TaskFacts, Zenon DEF TInv, Shapes
<1>2. p2pInfos \in [Cobjs -> SUBSET Macs]
  BY Zenon DEF TInv, Shapes
<1>3. /\ task[p].pc = "update"
      /\ UNCHANGED <<communities, replaced>>
  BY Zenon DEF EdgeUpdate
<1>4. CASE o # None
  <2> DEFINE t == [task[p] EXCEPT !.pc = "index", !.obj = o]
  <2>1. PICK newEdge : Store(edges, p2pInfos, newEdge)
    BY <1>4, Zenon DEF EdgeUpdate
  <2>2. Goto(p, t) /\ UNCHANGED <<edgesByMAC, edgeCachedInfos>>
    BY <1>4, Zenon DEF EdgeUpdate
  <2>3. /\ t.pc = "index" /\ t.obj = o /\ t.cm = task[p].cm /\ t.mac = task[p].mac
        /\ t.todo = task[p].todo
    BY <1>1, Zenon DEF Task
  <2> HIDE DEF t
  <2>4. TargetsOK(t) /\ Targets(t) = Targets(task[p])
    BY <1>1, <1>3, <2>3, Zenon DEF TargetsOK, Targets
  <2>5. Quiet(p, t)
    BY <1>2, <1>3, <2>1, <2>2, <2>3, <2>4, StoreQuiet, Zenon
  <2> QED
    BY <2>5, QuietKeeps, Zenon
<1>5. CASE o = None
  <2>1. /\ Goto(p, Idle) /\ Store(edges, p2pInfos, edge)
        /\ UNCHANGED <<edgesByMAC, edgeCachedInfos>>
    BY <1>5, Zenon DEF EdgeUpdate
  <2>2. Quiet(p, Idle)
    BY <1>1, <1>2, <1>3, <2>1, DoneTargets, StoreQuiet, Zenon
  <2> QED
    BY <2>2, QuietKeeps, Zenon
<1> QED
  BY <1>4, <1>5, Zenon

-----------------------------------------------------------------------------
(* Steps that change the tables *)

\* What every step of a handler from task[p] to t has in common.
HandlerStep(p, t) ==
    /\ task'[p] = t
    /\ \A q \in Procs \ {p} : task'[q] = task[q]
    /\ overlapped \subseteq overlapped' /\ overlapped' \subseteq Macs
    /\ Solo'
    /\ \A q \in Procs : TargetsOK(task'[q])
    /\ \A q \in Procs : \A x \in Targets(task'[q]) :
         x[1] \in Cobjs /\ x[2] \in Macs /\ x = <<x[1], x[2]>>
    /\ \A m \in Macs \ overlapped' : Busy(task[p], m) \/ Busy(t, m) =>
         \A q \in Procs \ {p} :
           /\ \A x \in Targets(task'[q]) : x[2] # m
           /\ task'[q].mac = m => task'[q].pc = "idle"

\* The handlers do not meet at an edge that is not in overlapped.
LEMMA StepFacts ==
    ASSUME IInv, IInv', TInv, NEW p \in Procs, NEW t, Goto(p, t), TargetsOK(t)
    PROVE  HandlerStep(p, t)
<1>1. /\ task'[p] = t
      /\ \A q \in Procs \ {p} : task'[q] = task[q]
      /\ overlapped \subseteq overlapped'
      /\ overlapped' \subseteq Macs
      /\ \A m \in Macs \ overlapped', q \in Procs \ {p} : Busy(t, m) => ~Busy(task[q], m)
      /\ Solo'
  BY GotoFacts, Zenon DEF IInv, TablesTyped, TInv, Shapes
<1>2. \A q \in Procs : TaskOK(task'[q]) /\ TargetsOK(task'[q])
  BY <1>1, Zenon DEF IInv, TablesTyped, TInv, Shapes
<1>3. \A q \in Procs : \A x \in Targets(task'[q]) :
         x[1] \in Cobjs /\ x[2] \in Macs /\ x = <<x[1], x[2]>> /\ Busy(task'[q], x[2])
  BY <1>2, TargetsBusy, Zenon
<1>4. ASSUME NEW m \in Macs, m \notin overlapped', Busy(task[p], m) \/ Busy(t, m),
             NEW q \in Procs \ {p}
      PROVE  ~Busy(task'[q], m)
  BY <1>1, <1>4, Zenon DEF TInv, Solo
<1>5. ASSUME NEW m \in Macs, m \notin overlapped', Busy(task[p], m) \/ Busy(t, m),
             NEW q \in Procs \ {p}
      PROVE  /\ \A x \in Targets(task'[q]) : x[2] # m
             /\ task'[q].mac = m => task'[q].pc = "idle"
  BY <1>3, <1>4, <1>5 DEF Busy
<1> QED
  BY <1>1, <1>2, <1>3, <1>5, Zenon DEF HandlerStep

\* RegisterCommunity enters a new Community in the table.
LEMMA CreateCommunityKeeps ==
    ASSUME IInv, IInv', TInv, NEW p \in Procs, CreateCommunity(p)
    PROVE  TInv'
<1> USE SupernodeRegistryAssumption
<1> DEFINE m0 == task[p].mac
           h0 == CommunityOf[m0]
<1>1. TaskOK(task[p]) /\ TargetsOK(task[p]) /\ task[p] \in Task
  BY TaskFacts, Zenon DEF TInv, Shapes
<1>2. PICK c \in Cobjs \ LiveCobjs :
        /\ communities' = [communities EXCEPT ![h0] = c]
        /\ Goto(p, [task[p] EXCEPT !.pc = "update", !.cm = c])
  BY Zenon DEF CreateCommunity
<1> DEFINE t == [task[p] EXCEPT !.pc = "update", !.cm = c]
<1>3. /\ task[p].pc = "create" /\ Store(edges, p2pInfos, edge)
      /\ UNCHANGED <<edgesByMAC, edgeCachedInfos>>
      /\ replaced' = (replaced \/ communities[h0] # None)
  BY Zenon DEF CreateCommunity
<1>4. /\ t.pc = "update" /\ t.cm = c /\ t.mac = m0 /\ t.todo = {}
      /\ m0 \in Macs /\ h0 \in Communities
  BY <1>1, <1>3, Zenon DEF Task, TaskOK, TargetsOK
<1>5. Goto(p, t)
  BY <1>2, Zenon
<1> HIDE DEF t, m0, h0
<1>6. TargetsOK(t) /\ Targets(t) = {<<c, m0>>}
  BY <1>4, Zenon DEF TargetsOK, Targets
<1>7. HandlerStep(p, t)
  BY <1>5, <1>6, StepFacts, Zenon
<1>8. /\ communities'[h0] = c
      /\ \A h \in Communities : h # h0 => communities'[h] = communities[h]
      /\ \A h \in Communities : communities[h] # c
      /\ \A q \in Procs : \A x \in Targets(task[q]) : x[1] # c
      /\ \A m \in Macs : edges[c][m] = None
  BY <1>2, <1>4, LiveFacts DEF IInv, TablesTyped, InUse, TInv, Collected, NoEdges
<1>9. \A q \in Procs : \A x \in Targets(task'[q]) :
         x = <<c, m0>> \/ x \in Targets(task[q])
  BY <1>6, <1>7, Zenon DEF HandlerStep
<1>10. /\ \A h \in Communities : communities'[h] # None =>
            edges'[communities'[h]] = edges[communities'[h]]
       /\ \A q \in Procs : \A x \in Targets(task'[q]) : edges'[x[1]] = edges[x[1]]
       /\ \A d \in Cobjs, m \in Macs : edges'[d][m] # None => edges'[d][m] = edges[d][m]
       /\ \A d \in Cobjs, m \in Macs : m \in p2pInfos'[d] => m \in p2pInfos[d]
  <2>1. \A q \in Procs : \A x \in Targets(task'[q]) : x[1] \in Cobjs
    BY <1>7, Zenon DEF HandlerStep
  <2> QED
    BY <1>3, <2>1, StoreTables
<1>11. \A m \in Macs : MemberOf(m)' = IF CommunityOf[m] = h0 THEN None ELSE MemberOf(m)
  BY <1>8, <1>10 DEF MemberOf
<1>12. Shapes'
  <2>1. p2pInfos' \in [Cobjs -> SUBSET Macs]
    BY <1>3, StoreCollects DEF TInv, Shapes
  <2> QED
    BY <1>3, <1>7, <2>1, Zenon DEF Shapes, TInv, HandlerStep
<1>13. Collected'
  BY <1>3, StoreCollects, Zenon
<1>14. OneHash'
  <2>1. \A h, k \in Communities :
           communities'[h] # None /\ communities'[h] = communities'[k] => h = k
    BY <1>8 DEF TInv, OneHash
  <2>2. \A h \in Communities, m \in Macs :
           communities'[h] # None /\ edges'[communities'[h]][m] # None => CommunityOf[m] = h
    BY <1>8, <1>10 DEF TInv, OneHash
  <2>3. ASSUME NEW q \in Procs, NEW h \in Communities, NEW x \in Targets(task'[q]),
               communities'[h] = x[1]
        PROVE  CommunityOf[x[2]] = h
    <3>1. CASE x = <<c, m0>>
      BY <1>8, <2>3, <3>1 DEF h0
    <3>2. CASE x \in Targets(task[q])
      BY <1>8, <2>3, <3>2 DEF TInv, OneHash
    <3> QED
      BY <1>9, <3>1, <3>2, Zenon
  <2> QED
    BY <2>1, <2>2, <2>3, Zenon DEF OneHash
<1>15. ~replaced' => communities[h0] = None /\ ~replaced
  BY <1>3, Zenon DEF TInv, Shapes
<1>16. Unreplaced'
  <2> SUFFICES ASSUME ~replaced'
               PROVE  /\ \A d \in Cobjs, m \in Macs :
                           edges'[d][m] # None => d = communities'[CommunityOf[m]]
                      /\ \A q \in Procs : \A x \in Targets(task'[q]) :
                           x[1] = communities'[CommunityOf[x[2]]]
    BY Zenon DEF Unreplaced
  <2>1. \A d \in Cobjs, m \in Macs : edges'[d][m] # None => d = communities'[CommunityOf[m]]
    BY <1>8, <1>10, <1>15 DEF TInv, Unreplaced
  <2>2. ASSUME NEW q \in Procs, NEW x \in Targets(task'[q])
        PROVE  x[1] = communities'[CommunityOf[x[2]]]
    <3>1. CASE x = <<c, m0>>
      BY <1>8, <3>1, Zenon DEF h0
    <3>2. CASE x \in Targets(task[q])
      <4>1. x[1] \in Cobjs /\ x[2] \in Macs
        BY <1>7, Zenon DEF HandlerStep
      <4>2. x[1] = communities[CommunityOf[x[2]]]
        BY <1>15, <3>2, Zenon DEF TInv, Unreplaced
      <4> QED
        BY <1>8, <1>15, <4>1, <4>2
    <3> QED
      BY <1>9, <3>1, <3>2, Zenon
  <2> QED
    BY <2>1, <2>2, Zenon
<1>17. Displaced'
  <2> SUFFICES ASSUME NEW q \in Procs, NEW x \in Targets(task'[q]), x[2] \notin overlapped',
                      communities'[CommunityOf[x[2]]] # x[1]
               PROVE  MemberOf(x[2])' = None
    BY Zenon DEF Displaced
  <2>1. x[2] \in Macs /\ x[2] \notin overlapped
    BY <1>7, Zenon DEF HandlerStep
  <2>2. CASE CommunityOf[x[2]] = h0
    BY <1>11, <2>1, <2>2, Zenon
  <2>3. CASE CommunityOf[x[2]] # h0
    <3>1. x \in Targets(task[q])
      BY <1>9, <2>3 DEF h0
    <3> QED
      BY <1>8, <1>11, <2>1, <2>3, <3>1 DEF TInv, Displaced
  <2> QED
    BY <2>2, <2>3, Zenon
<1>18. Indexed'
  <2> SUFFICES ASSUME NEW m \in Macs, m \notin overlapped'
               PROVE  /\ MemberOf(m)' # None =>
                           \/ edgesByMAC'[m] # None
                           \/ \E q \in Procs : task'[q].pc = "index" /\ task'[q].mac = m
                      /\ \A q \in Procs : \A x \in Targets(task'[q]) :
                           x[2] = m /\ edges'[x[1]][m] # None
                             => edgesByMAC'[m] # None \/ task'[q].pc = "index"
                      /\ \A q \in Procs : task'[q].pc = "unindex" /\ task'[q].mac = m
                           => edgesByMAC'[m] # None /\ MemberOf(m)' = None
    BY Zenon DEF Indexed
  <2>1. m \notin overlapped
    BY <1>7, Zenon DEF HandlerStep
  <2>2. MemberOf(m)' # None =>
           \/ edgesByMAC[m] # None
           \/ \E q \in Procs : task'[q].pc = "index" /\ task'[q].mac = m
    BY <1>3, <1>7, <1>11, <2>1 DEF TInv, Indexed, HandlerStep
  <2>3. ASSUME NEW q \in Procs, NEW x \in Targets(task'[q]), x[2] = m, edges'[x[1]][m] # None
        PROVE  edgesByMAC[m] # None \/ task'[q].pc = "index"
    <3>1. x \in Targets(task[q]) /\ edges[x[1]][m] # None
      BY <1>8, <1>9, <1>10, <2>3
    <3> QED
      BY <1>3, <1>7, <2>1, <2>3, <3>1 DEF TInv, Indexed, HandlerStep
  <2>4. \A q \in Procs : task'[q].pc = "unindex" /\ task'[q].mac = m
           => edgesByMAC[m] # None /\ MemberOf(m)' = None
    BY <1>4, <1>7, <1>11, <2>1 DEF TInv, Indexed, HandlerStep
  <2> QED
    BY <1>3, <2>2, <2>3, <2>4, Zenon
<1>19. ~replaced' => \A m \in Macs :
          /\ MemberOf(m)' = MemberOf(m)
          /\ MemberOf(m) # None => communities'[CommunityOf[m]] = communities[CommunityOf[m]]
  BY <1>8, <1>11, <1>15, Zenon DEF MemberOf
<1>20. Agree'
  <2> SUFFICES ASSUME ~replaced', NEW m \in Macs, m \notin overlapped'
               PROVE  /\ (\A q \in Procs : task'[q].mac = m =>
                            task'[q].pc \notin {"index", "unindex"})
                           => edgesByMAC'[m] = MemberOf(m)'
                      /\ \A q \in Procs : task'[q].mac = m =>
                           /\ task'[q].pc = "index" => task'[q].obj = MemberOf(m)'
                           /\ task'[q].pc = "unindex" => MemberOf(m)' = None
                           /\ task'[q].pc = "p2p" => MemberOf(m)' # None
                      /\ \A d \in Cobjs : m \in p2pInfos'[d] =>
                           d = communities'[CommunityOf[m]] /\ MemberOf(m)' # None
    BY Zenon DEF Agree
  <2>1. ~replaced /\ m \notin overlapped
    BY <1>7, <1>15, Zenon DEF HandlerStep
  <2>2. (\A q \in Procs : task'[q].mac = m => task'[q].pc \notin {"index", "unindex"})
          => edgesByMAC[m] = MemberOf(m)
    BY <1>3, <1>7, <2>1, Zenon DEF TInv, Agree, HandlerStep
  <2>3. \A q \in Procs : task'[q].mac = m =>
           /\ task'[q].pc = "index" => task'[q].obj = MemberOf(m)
           /\ task'[q].pc = "unindex" => MemberOf(m) = None
           /\ task'[q].pc = "p2p" => MemberOf(m) # None
    BY <1>4, <1>7, <2>1 DEF TInv, Agree, HandlerStep
  <2>4. \A d \in Cobjs : m \in p2pInfos'[d] =>
           d = communities[CommunityOf[m]] /\ MemberOf(m) # None
    BY <1>10, <2>1, Zenon DEF TInv, Agree
  <2> QED
    BY <1>3, <1>19, <2>2, <2>3, <2>4, Zenon
<1>21. CachedInfosExact'
  BY <1>3, <1>15, <1>19, Zenon DEF TInv, CachedInfosExact
<1>22. Solo'
  BY <1>7, Zenon DEF HandlerStep
<1> QED
  BY <1>12, <1>13, <1>14, <1>16, <1>17, <1>18, <1>20, <1>21, <1>22, Zenon DEF TInv

\* A handler keeps the Community objects of the communities apart when it only
\* stores an edge with the community of its hash.
LEMMA OneHashKeeps ==
    ASSUME OneHash, communities' = communities,
           \A h \in Communities, m \in Macs :
             communities[h] # None /\ edges'[communities[h]][m] # None => CommunityOf[m] = h,
           \A q \in Procs : Targets(task'[q]) \subseteq Targets(task[q])
    PROVE  OneHash'
<1>1. \A q \in Procs, h \in Communities : \A x \in Targets(task'[q]) :
         communities[h] = x[1] => CommunityOf[x[2]] = h
  BY DEF OneHash
<1> QED
  BY <1>1 DEF OneHash

\* EdgeUpdate enters a new edge in the Community and in edgeCachedInfos.
LEMMA NewEdgeKeeps ==
    ASSUME IInv, IInv', TInv, NEW p \in Procs, EdgeUpdate(p),
           edges[task[p].cm][task[p].mac] = None, RequestIP(task[p].mac) # {}
    PROVE  TInv'
<1> USE SupernodeRegistryAssumption
<1>1. TaskOK(task[p]) /\ TargetsOK(task[p]) /\ task[p] \in Task
  BY TaskFacts, Zenon DEF TInv, Shapes
<1>2. PICK m0 \in Macs, c \in Cobjs : m0 = task[p].mac /\ c = task[p].cm
  BY <1>1, Zenon DEF EdgeUpdate, TaskOK
<1>3. /\ task[p].pc = "update"
      /\ UNCHANGED <<communities, replaced, edgesByMAC>>
      /\ SetEdgeCachedInfo(m0, "registered")
  BY <1>2, Zenon DEF EdgeUpdate
<1>4. PICK n, newEdge :
        /\ n \in Eobjs
        /\ Goto(p, [task[p] EXCEPT !.pc = "index", !.obj = n])
        /\ Store([edges EXCEPT ![c][m0] = n], p2pInfos, newEdge)
  BY <1>2, Zenon DEF EdgeUpdate
<1> DEFINE t == [task[p] EXCEPT !.pc = "index", !.obj = n]
           newEdges == [edges EXCEPT ![c][m0] = n]
<1>5. Goto(p, t) /\ Store(newEdges, p2pInfos, newEdge)
  BY <1>4, Zenon
<1>6. /\ t.pc = "index" /\ t.cm = c /\ t.mac = m0 /\ t.todo = {} /\ t.obj = n
      /\ task[p].todo = {}
      /\ n # None
  BY <1>2, <1>1, <1>3, <1>4, Zenon DEF Task, TaskOK, TargetsOK
<1>7. /\ newEdges[c][m0] = n
      /\ \A d \in Cobjs, m \in Macs : d # c \/ m # m0 => newEdges[d][m] = edges[d][m]
  BY <1>6 DEF IInv, TablesTyped
<1> HIDE DEF t, newEdges
<1>8. TargetsOK(t) /\ Targets(t) = {<<c, m0>>} /\ Targets(task[p]) = {<<c, m0>>}
      /\ Busy(task[p], m0)
  BY <1>2, <1>3, <1>6, Zenon DEF TargetsOK, Targets, Busy
<1>9. HandlerStep(p, t)
  BY <1>5, <1>8, StepFacts, Zenon
<1>10. \A q \in Procs : Targets(task'[q]) = Targets(task[q])
  BY <1>8, <1>9, Zenon DEF HandlerStep
<1>11. /\ \A h \in Communities : communities[h] # None =>
            edges'[communities[h]] = newEdges[communities[h]]
       /\ \A q \in Procs : \A x \in Targets(task'[q]) : edges'[x[1]] = newEdges[x[1]]
       /\ \A d \in Cobjs, m \in Macs : edges'[d][m] # None => edges'[d][m] = newEdges[d][m]
       /\ \A d \in Cobjs, m \in Macs : m \in p2pInfos'[d] => m \in p2pInfos[d]
  <2>1. \A q \in Procs : \A x \in Targets(task'[q]) : x[1] \in Cobjs
    BY <1>9, Zenon DEF HandlerStep
  <2> QED
    BY <1>3, <1>5, <2>1, StoreTables
<1>12. /\ <<c, m0>> \in Targets(task[p])
       /\ \A m \in Macs : communities[CommunityOf[m]] \in Cobjs \cup {None}
  BY <1>8, Zenon DEF IInv, TablesTyped
<1>13. /\ \A m \in Macs \ {m0} : MemberOf(m)' = MemberOf(m)
       /\ communities[CommunityOf[m0]] # c => MemberOf(m0)' = MemberOf(m0)
       /\ communities[CommunityOf[m0]] = c => MemberOf(m0)' = n
  BY <1>3, <1>6, <1>7, <1>11, <1>12 DEF MemberOf
<1>14. Shapes'
  <2>1. p2pInfos' \in [Cobjs -> SUBSET Macs]
    <3>1. p2pInfos \in [Cobjs -> SUBSET Macs]
      BY Zenon DEF TInv, Shapes
    <3> QED
      BY <1>5, <3>1, StoreInfos, Zenon
  <2> QED
    BY <1>3, <1>6, <1>9, <2>1, Zenon DEF Shapes, TInv, HandlerStep, SetEdgeCachedInfo
<1>15. Collected'
  BY <1>5, StoreCollects, Zenon
<1>16. OneHash'
  <2>1. ASSUME NEW h \in Communities, NEW m \in Macs,
               communities[h] # None, edges'[communities[h]][m] # None
        PROVE  CommunityOf[m] = h
    <3>1. communities[h] \in Cobjs /\ newEdges[communities[h]][m] # None
      BY <1>11, <2>1 DEF IInv, TablesTyped
    <3>2. CASE communities[h] = c /\ m = m0
      BY <1>12, <3>2 DEF TInv, OneHash
    <3>3. CASE communities[h] # c \/ m # m0
      <4>1. edges[communities[h]][m] # None
        BY <1>7, <3>1, <3>3, Zenon
      <4> QED
        BY <2>1, <4>1, Zenon DEF TInv, OneHash
    <3> QED
      BY <3>2, <3>3, Zenon
  <2>2. OneHash /\ communities' = communities
    BY <1>3, Zenon DEF TInv
  <2> QED
    BY <1>10, <2>1, <2>2, OneHashKeeps
<1>17. ~replaced => c = communities[CommunityOf[m0]]
  <2>1. \A x \in Targets(task[p]) : ~replaced => x[1] = communities[CommunityOf[x[2]]]
    BY Zenon DEF TInv, Unreplaced
  <2> QED
    BY <1>12, <2>1
<1>18. Unreplaced'
  <2>1. ASSUME ~replaced, NEW d \in Cobjs, NEW m \in Macs, edges'[d][m] # None
        PROVE  d = communities[CommunityOf[m]]
    BY <1>7, <1>11, <1>17, <2>1 DEF TInv, Unreplaced
  <2> QED
    BY <1>3, <1>10, <2>1, Zenon DEF TInv, Unreplaced
<1>19. Displaced'
  <2> SUFFICES ASSUME NEW q \in Procs, NEW x \in Targets(task'[q]), x[2] \notin overlapped',
                      communities'[CommunityOf[x[2]]] # x[1]
               PROVE  MemberOf(x[2])' = None
    BY Zenon DEF Displaced
  <2>1. x[2] \in Macs /\ x[2] \notin overlapped
    BY <1>9, Zenon DEF HandlerStep
  <2>2. MemberOf(x[2]) = None
    BY <1>3, <1>10, <2>1, Zenon DEF TInv, Displaced
  <2>3. CASE x[2] # m0
    BY <1>13, <2>1, <2>2, <2>3, Zenon
  <2>4. CASE x[2] = m0
    <3>1. q = p
      BY <1>8, <1>9, <2>1, <2>4, Zenon DEF HandlerStep
    <3>2. x[1] = c
      BY <1>8, <1>10, <3>1
    <3> QED
      BY <1>3, <1>13, <2>2, <2>4, <3>2, Zenon
  <2> QED
    BY <2>3, <2>4, Zenon
<1>20. Indexed'
  <2> SUFFICES ASSUME NEW m \in Macs, m \notin overlapped'
               PROVE  /\ MemberOf(m)' # None =>
                           \/ edgesByMAC'[m] # None
                           \/ \E q \in Procs : task'[q].pc = "index" /\ task'[q].mac = m
                      /\ \A q \in Procs : \A x \in Targets(task'[q]) :
                           x[2] = m /\ edges'[x[1]][m] # None
                             => edgesByMAC'[m] # None \/ task'[q].pc = "index"
                      /\ \A q \in Procs : task'[q].pc = "unindex" /\ task'[q].mac = m
                           => edgesByMAC'[m] # None /\ MemberOf(m)' = None
    BY Zenon DEF Indexed
  <2>1. m \notin overlapped
    BY <1>9, Zenon DEF HandlerStep
  <2>2. CASE m = m0
    BY <1>6, <1>8, <1>9, <2>2, Zenon DEF HandlerStep
  <2>3. CASE m # m0
    <3>1. MemberOf(m)' # None =>
             \/ edgesByMAC[m] # None
             \/ \E q \in Procs : task'[q].pc = "index" /\ task'[q].mac = m
      BY <1>3, <1>9, <1>13, <2>1, <2>3 DEF TInv, Indexed, HandlerStep
    <3>2. ASSUME NEW q \in Procs, NEW x \in Targets(task'[q]), x[2] = m,
                 edges'[x[1]][m] # None
          PROVE  edgesByMAC[m] # None \/ task'[q].pc = "index"
      <4>1. x[1] \in Cobjs
        BY <1>9, Zenon DEF HandlerStep
      <4>2. x \in Targets(task[q]) /\ edges[x[1]][m] # None
        <5>1. x \in Targets(task[q]) /\ newEdges[x[1]][m] # None
          BY <1>10, <1>11, <3>2, Zenon
        <5> QED
          BY <1>7, <2>3, <4>1, <5>1, Zenon
      <4> QED
        BY <1>3, <1>9, <2>1, <3>2, <4>2 DEF TInv, Indexed, HandlerStep
    <3>3. \A q \in Procs : task'[q].pc = "unindex" /\ task'[q].mac = m
             => edgesByMAC[m] # None /\ MemberOf(m)' = None
      BY <1>6, <1>9, <1>13, <2>1, <2>3 DEF TInv, Indexed, HandlerStep
    <3> QED
      BY <1>3, <3>1, <3>2, <3>3, Zenon
  <2> QED
    BY <2>2, <2>3, Zenon
<1>21. Agree'
  <2> SUFFICES ASSUME ~replaced', NEW m \in Macs, m \notin overlapped'
               PROVE  /\ (\A q \in Procs : task'[q].mac = m =>
                            task'[q].pc \notin {"index", "unindex"})
                           => edgesByMAC'[m] = MemberOf(m)'
                      /\ \A q \in Procs : task'[q].mac = m =>
                           /\ task'[q].pc = "index" => task'[q].obj = MemberOf(m)'
                           /\ task'[q].pc = "unindex" => MemberOf(m)' = None
                           /\ task'[q].pc = "p2p" => MemberOf(m)' # None
                      /\ \A d \in Cobjs : m \in p2pInfos'[d] =>
                           d = communities'[CommunityOf[m]] /\ MemberOf(m)' # None
    BY Zenon DEF Agree
  <2>1. ~replaced /\ m \notin overlapped
    BY <1>3, <1>9, Zenon DEF HandlerStep
  <2>2. \A d \in Cobjs : m \in p2pInfos'[d] =>
           d = communities[CommunityOf[m]] /\ MemberOf(m) # None
    BY <1>11, <2>1, Zenon DEF TInv, Agree
  <2>3. CASE m = m0
    <3>1. MemberOf(m)' = n
      BY <1>13, <1>17, <2>1, <2>3, Zenon
    <3> QED
      BY <1>3, <1>6, <1>8, <1>9, <2>2, <2>3, <3>1, Zenon DEF HandlerStep
  <2>4. CASE m # m0
    <3>1. MemberOf(m)' = MemberOf(m)
      BY <1>13, <2>4, Zenon
    <3>2. (\A q \in Procs : task'[q].mac = m => task'[q].pc \notin {"index", "unindex"})
             => edgesByMAC[m] = MemberOf(m)
      BY <1>3, <1>9, <2>1 DEF TInv, Agree, HandlerStep
    <3>3. \A q \in Procs : task'[q].mac = m =>
             /\ task'[q].pc = "index" => task'[q].obj = MemberOf(m)
             /\ task'[q].pc = "unindex" => MemberOf(m) = None
             /\ task'[q].pc = "p2p" => MemberOf(m) # None
      BY <1>6, <1>9, <2>1, <2>4 DEF TInv, Agree, HandlerStep
    <3> QED
      BY <1>3, <2>2, <3>1, <3>2, <3>3, Zenon
  <2> QED
    BY <2>3, <2>4, Zenon
<1>22. CachedInfosExact'
  <2> SUFFICES ASSUME ~replaced, NEW m \in Macs
               PROVE  edgeCachedInfos'[m] = "registered" <=> MemberOf(m)' # None
    BY <1>3, Zenon DEF CachedInfosExact
  <2>1. CASE m = m0
    BY <1>3, <1>6, <1>13, <1>17, <2>1, Zenon DEF SetEdgeCachedInfo, TInv, Shapes
  <2>2. CASE m # m0
    BY <1>3, <1>13, <2>2, Zenon DEF SetEdgeCachedInfo, TInv, Shapes, CachedInfosExact
  <2> QED
    BY <2>1, <2>2, Zenon
<1>23. Solo'
  BY <1>9, Zenon DEF HandlerStep
<1> QED
  BY <1>14, <1>15, <1>16, <1>18, <1>19, <1>20, <1>21, <1>22, <1>23, Zenon DEF TInv

\* What a step keeps that stores the edges as they are and drops targets.
Untouched(p, t) ==
    /\ HandlerStep(p, t)
    /\ UNCHANGED <<communities, replaced, edgeCachedInfos>>
    /\ \A m \in Macs : MemberOf(m)' = MemberOf(m)
    /\ \A q \in Procs : Targets(task'[q]) \subseteq Targets(task[q])
    /\ \A q \in Procs : \A x \in Targets(task'[q]) : edges'[x[1]] = edges[x[1]]
    /\ \A c \in Cobjs, m \in Macs : m \in p2pInfos'[c] => m \in p2pInfos[c]
    /\ Shapes' /\ Collected' /\ OneHash' /\ Solo' /\ Unreplaced' /\ Displaced'
    /\ CachedInfosExact'

\* Only edgesByMAC is left to look at after such a step.
LEMMA UntouchedFacts ==
    ASSUME IInv, IInv', TInv, NEW p \in Procs, NEW t, Goto(p, t), TargetsOK(t),
           Targets(t) \subseteq Targets(task[p]),
           NEW newEdge, Store(edges, p2pInfos, newEdge),
           UNCHANGED <<communities, replaced, edgeCachedInfos>>
    PROVE  Untouched(p, t)
<1> USE SupernodeRegistryAssumption
<1>1. HandlerStep(p, t)
  BY StepFacts, Zenon
<1>2. \A q \in Procs : Targets(task'[q]) \subseteq Targets(task[q])
  BY <1>1, Zenon DEF HandlerStep
<1>3. /\ \A h \in Communities : communities[h] # None =>
            edges'[communities[h]] = edges[communities[h]]
      /\ \A q \in Procs : \A x \in Targets(task'[q]) : edges'[x[1]] = edges[x[1]]
      /\ \A c \in Cobjs, m \in Macs : edges'[c][m] # None => edges'[c][m] = edges[c][m]
      /\ \A c \in Cobjs, m \in Macs : m \in p2pInfos'[c] => m \in p2pInfos[c]
  <2>1. \A q \in Procs : \A x \in Targets(task'[q]) : x[1] \in Cobjs
    BY <1>1, Zenon DEF HandlerStep
  <2> QED
    <3>1. \A h \in Communities : communities[h] # None =>
             edges'[communities[h]] = edges[communities[h]]
      BY StoreTables
    <3>2. \A q \in Procs : \A x \in Targets(task'[q]) : edges'[x[1]] = edges[x[1]]
      BY <2>1, StoreTables
    <3>3. /\ \A c \in Cobjs, m \in Macs : edges'[c][m] # None => edges'[c][m] = edges[c][m]
          /\ \A c \in Cobjs, m \in Macs : m \in p2pInfos'[c] => m \in p2pInfos[c]
      BY StoreTables
    <3> QED
      BY <3>1, <3>2, <3>3, Zenon
<1>4. \A m \in Macs : MemberOf(m)' = MemberOf(m)
  BY <1>3, Zenon DEF MemberOf
<1>5. Shapes'
  <2>1. p2pInfos' \in [Cobjs -> SUBSET Macs]
    <3>1. p2pInfos \in [Cobjs -> SUBSET Macs]
      BY Zenon DEF TInv, Shapes
    <3> QED
      BY <3>1, StoreInfos, Zenon
  <2> QED
    BY <1>1, <2>1, Zenon DEF Shapes, TInv, HandlerStep
<1>6. Collected'
  BY StoreCollects, Zenon
<1>7. OneHash'
  <2>1. ASSUME NEW h \in Communities, NEW m \in Macs,
               communities[h] # None, edges'[communities[h]][m] # None
        PROVE  CommunityOf[m] = h
    <3>1. edges[communities[h]][m] # None
      BY <1>3, <2>1, Zenon
    <3> QED
      BY <2>1, <3>1, Zenon DEF TInv, OneHash
  <2>2. OneHash /\ communities' = communities
    BY Zenon DEF TInv
  <2> QED
    BY <1>2, <2>1, <2>2, OneHashKeeps
<1>8. Unreplaced'
  <2>1. ASSUME ~replaced, NEW c \in Cobjs, NEW m \in Macs, edges'[c][m] # None
        PROVE  c = communities[CommunityOf[m]]
    <3>1. edges[c][m] # None
      BY <1>3, <2>1, Zenon
    <3> QED
      BY <2>1, <3>1, Zenon DEF TInv, Unreplaced
  <2>2. ASSUME ~replaced, NEW q \in Procs, NEW x \in Targets(task'[q])
        PROVE  x[1] = communities[CommunityOf[x[2]]]
    <3>1. x \in Targets(task[q])
      BY <1>2, <2>2, Zenon
    <3> QED
      BY <2>2, <3>1, Zenon DEF TInv, Unreplaced
  <2>3. communities' = communities /\ replaced' = replaced
    OBVIOUS
  <2>4. ~replaced' => \A c \in Cobjs, m \in Macs :
           edges'[c][m] # None => c = communities'[CommunityOf[m]]
    BY <2>1, <2>3
  <2>5. ~replaced' => \A q \in Procs : \A x \in Targets(task'[q]) :
           x[1] = communities'[CommunityOf[x[2]]]
    BY <2>2, <2>3
  <2> QED
    BY <2>4, <2>5, Zenon DEF Unreplaced
<1>9. Displaced'
  BY <1>1, <1>2, <1>4 DEF TInv, Displaced, HandlerStep
<1>10. CachedInfosExact'
  BY <1>4, Zenon DEF TInv, CachedInfosExact
<1>11. Solo'
  BY <1>1, Zenon DEF HandlerStep
<1> QED
  BY <1>1, <1>2, <1>3, <1>4, <1>5, <1>6, <1>7, <1>8, <1>9, <1>10, <1>11, Zenon DEF
     Untouched

\* The edge enters edgesByMAC.
LEMMA IndexEdgeKeeps ==
    ASSUME IInv, IInv', TInv, NEW p \in Procs, IndexEdge(p)
    PROVE  TInv'
<1> USE SupernodeRegistryAssumption
<1>1. TaskOK(task[p]) /\ TargetsOK(task[p]) /\ task[p] \in Task
  BY TaskFacts DEF TInv, Shapes
<1>2. PICK m0 \in Macs, o \in Eobjs : m0 = task[p].mac /\ o = task[p].obj
  BY <1>1, Zenon DEF IndexEdge, TaskOK
<1>3. /\ task[p].pc = "index" /\ Goto(p, Idle)
      /\ edgesByMAC' = [edgesByMAC EXCEPT ![m0] = o]
      /\ UNCHANGED <<communities, replaced, edgeCachedInfos>>
  BY <1>2, Zenon DEF IndexEdge
<1>4. PICK newEdge : Store(edges, p2pInfos, newEdge)
  BY Zenon DEF IndexEdge
<1>5. Untouched(p, Idle)
  BY <1>1, <1>3, <1>4, DoneTargets, UntouchedFacts, Zenon
<1>6. /\ edgesByMAC'[m0] = o /\ o # None
      /\ \A m \in Macs \ {m0} : edgesByMAC'[m] = edgesByMAC[m]
  BY <1>3, Zenon DEF IInv, TablesTyped
<1>7. /\ task'[p] = Idle /\ Idle.pc = "idle" /\ Busy(task[p], m0)
      /\ \A q \in Procs \ {p} : task'[q] = task[q]
      /\ overlapped \subseteq overlapped'
      /\ \A m \in Macs \ overlapped' : Busy(task[p], m) =>
           \A q \in Procs \ {p} : task[q].mac = m => task[q].pc = "idle"
  BY <1>2, <1>3, <1>5 DEF Untouched, HandlerStep, Busy, Idle
<1>8. Indexed'
  <2> SUFFICES ASSUME NEW m \in Macs, m \notin overlapped'
               PROVE  /\ MemberOf(m)' # None =>
                           \/ edgesByMAC'[m] # None
                           \/ \E q \in Procs : task'[q].pc = "index" /\ task'[q].mac = m
                      /\ \A q \in Procs : \A x \in Targets(task'[q]) :
                           x[2] = m /\ edges'[x[1]][m] # None
                             => edgesByMAC'[m] # None \/ task'[q].pc = "index"
                      /\ \A q \in Procs : task'[q].pc = "unindex" /\ task'[q].mac = m
                           => edgesByMAC'[m] # None /\ MemberOf(m)' = None
    BY Zenon DEF Indexed
  <2>1. m \notin overlapped
    BY <1>7, Zenon
  <2>2. CASE m = m0
    <3>1. edgesByMAC'[m] # None
      BY <1>6, <2>2, Zenon
    <3>2. \A q \in Procs : task'[q].mac = m => task'[q].pc # "unindex"
      BY <1>7, <2>2, Zenon
    <3> QED
      BY <3>1, <3>2, Zenon
  <2>3. CASE m # m0
    <3>1. MemberOf(m) # None =>
             \/ edgesByMAC[m] # None
             \/ \E q \in Procs : task'[q].pc = "index" /\ task'[q].mac = m
      <4>1. MemberOf(m) # None => \/ edgesByMAC[m] # None
                                  \/ \E q \in Procs : task[q].pc = "index" /\ task[q].mac = m
        BY <2>1, Zenon DEF TInv, Indexed
      <4>2. \A q \in Procs : task[q].mac = m => task'[q] = task[q]
        BY <1>2, <1>7, <2>3, Zenon
      <4> QED
        BY <4>1, <4>2, Zenon
    <3>2. ASSUME NEW q \in Procs, NEW x \in Targets(task'[q]), x[2] = m,
                 edges'[x[1]][m] # None
          PROVE  edgesByMAC[m] # None \/ task'[q].pc = "index"
      <4>1. q # p
        BY <1>1, <1>7, DoneTargets, Zenon
      <4>2. x \in Targets(task[q]) /\ edges[x[1]][m] # None
        BY <1>5, <3>2, Zenon DEF Untouched
      <4>3. edgesByMAC[m] # None \/ task[q].pc = "index"
        BY <2>1, <3>2, <4>2, Zenon DEF TInv, Indexed
      <4> QED
        BY <1>7, <4>1, <4>3, Zenon
    <3>3. \A q \in Procs : task'[q].pc = "unindex" /\ task'[q].mac = m
             => edgesByMAC[m] # None /\ MemberOf(m) = None
      <4>1. \A q \in Procs : task[q].pc = "unindex" /\ task[q].mac = m
               => edgesByMAC[m] # None /\ MemberOf(m) = None
        BY <2>1, Zenon DEF TInv, Indexed
      <4> QED
        BY <1>7, <4>1, Zenon
    <3> QED
      BY <1>5, <1>6, <2>3, <3>1, <3>2, <3>3, Zenon DEF Untouched
  <2> QED
    BY <2>2, <2>3, Zenon
<1>9. Agree'
  <2> SUFFICES ASSUME ~replaced', NEW m \in Macs, m \notin overlapped'
               PROVE  /\ (\A q \in Procs : task'[q].mac = m =>
                            task'[q].pc \notin {"index", "unindex"})
                           => edgesByMAC'[m] = MemberOf(m)'
                      /\ \A q \in Procs : task'[q].mac = m =>
                           /\ task'[q].pc = "index" => task'[q].obj = MemberOf(m)'
                           /\ task'[q].pc = "unindex" => MemberOf(m)' = None
                           /\ task'[q].pc = "p2p" => MemberOf(m)' # None
                      /\ \A d \in Cobjs : m \in p2pInfos'[d] =>
                           d = communities'[CommunityOf[m]] /\ MemberOf(m)' # None
    BY Zenon DEF Agree
  <2>1. ~replaced /\ m \notin overlapped
    BY <1>3, <1>7, Zenon
  <2>2. \A d \in Cobjs : m \in p2pInfos'[d] =>
           d = communities[CommunityOf[m]] /\ MemberOf(m) # None
    BY <1>5, <2>1, Zenon DEF TInv, Agree, Untouched
  <2>3. \A q \in Procs : task'[q].mac = m =>
           /\ task'[q].pc = "index" => task'[q].obj = MemberOf(m)
           /\ task'[q].pc = "unindex" => MemberOf(m) = None
           /\ task'[q].pc = "p2p" => MemberOf(m) # None
    <3>1. \A q \in Procs : task[q].mac = m =>
             /\ task[q].pc = "index" => task[q].obj = MemberOf(m)
             /\ task[q].pc = "unindex" => MemberOf(m) = None
             /\ task[q].pc = "p2p" => MemberOf(m) # None
      BY <2>1, Zenon DEF TInv, Agree
    <3> QED
      BY <1>7, <3>1, Zenon
  <2>4. (\A q \in Procs : task'[q].mac = m => task'[q].pc \notin {"index", "unindex"})
          => edgesByMAC'[m] = MemberOf(m)
    <3>1. CASE m = m0
      BY <1>2, <1>3, <1>6, <2>1, <3>1, Zenon DEF TInv, Agree
    <3>2. CASE m # m0
      <4>1. \A q \in Procs : task[q].mac = m => task'[q] = task[q]
        BY <1>2, <1>7, <3>2, Zenon
      <4>2. (\A q \in Procs : task[q].mac = m => task[q].pc \notin {"index", "unindex"})
               => edgesByMAC[m] = MemberOf(m)
        BY <2>1, Zenon DEF TInv, Agree
      <4> QED
        BY <1>6, <3>2, <4>1, <4>2, Zenon
    <3> QED
      BY <3>1, <3>2, Zenon
  <2> QED
    BY <1>3, <1>5, <2>2, <2>3, <2>4, Zenon DEF Untouched
<1> QED
  BY <1>5, <1>8, <1>9, Zenon DEF TInv, Untouched

\* onEdgeUnregistered takes the edge out of edgesByMAC, or panics.
LEMMA OnEdgeUnregisteredKeeps ==
    ASSUME IInv, IInv', TInv, NEW p \in Procs, OnEdgeUnregistered(p),
           edgesByMAC[task[p].mac] # None
    PROVE  TInv'
<1> USE SupernodeRegistryAssumption
<1> DEFINE d == Done(task[p])
<1>1. TaskOK(task[p]) /\ TargetsOK(task[p]) /\ task[p] \in Task
  BY TaskFacts, Zenon DEF TInv, Shapes
<1>2. PICK m0 \in Macs : m0 = task[p].mac
  BY <1>1, Zenon DEF OnEdgeUnregistered, TaskOK
<1>3. /\ task[p].pc = "unindex" /\ Goto(p, d) /\ Store(edges, p2pInfos, edge)
      /\ edgesByMAC' = [edgesByMAC EXCEPT ![m0] = None]
      /\ UNCHANGED <<communities, replaced, edgeCachedInfos>>
  BY <1>2, Zenon DEF OnEdgeUnregistered
<1>4. /\ TargetsOK(d) /\ Targets(d) = task[p].todo
      /\ d.pc \in {"idle", "clean"} /\ d.mac = None
  BY <1>1, DoneTargets, Zenon
<1>5. /\ Targets(d) \subseteq Targets(task[p])
      /\ \A x \in Targets(d) : x[2] # m0
  BY <1>1, <1>2, <1>3, <1>4, Zenon DEF Targets, TargetsOK
<1> HIDE DEF d
<1>6. Untouched(p, d)
  BY <1>3, <1>4, <1>5, UntouchedFacts, Zenon
<1>7. /\ edgesByMAC'[m0] = None
      /\ \A m \in Macs \ {m0} : edgesByMAC'[m] = edgesByMAC[m]
  BY <1>3, Zenon DEF IInv, TablesTyped
<1>8. /\ task'[p] = d /\ Busy(task[p], m0)
      /\ \A q \in Procs \ {p} : task'[q] = task[q]
      /\ overlapped \subseteq overlapped'
      /\ \A m \in Macs \ overlapped' : Busy(task[p], m) =>
           \A q \in Procs \ {p} : /\ task'[q].mac = m => task'[q].pc = "idle"
                                  /\ \A x \in Targets(task'[q]) : x[2] # m
  BY <1>2, <1>3, <1>6, Zenon DEF Untouched, HandlerStep, Busy
<1>9. Indexed'
  <2> SUFFICES ASSUME NEW m \in Macs, m \notin overlapped'
               PROVE  /\ MemberOf(m)' # None =>
                           \/ edgesByMAC'[m] # None
                           \/ \E q \in Procs : task'[q].pc = "index" /\ task'[q].mac = m
                      /\ \A q \in Procs : \A x \in Targets(task'[q]) :
                           x[2] = m /\ edges'[x[1]][m] # None
                             => edgesByMAC'[m] # None \/ task'[q].pc = "index"
                      /\ \A q \in Procs : task'[q].pc = "unindex" /\ task'[q].mac = m
                           => edgesByMAC'[m] # None /\ MemberOf(m)' = None
    BY Zenon DEF Indexed
  <2>1. m \notin overlapped
    BY <1>8, Zenon
  <2>2. CASE m = m0
    <3>1. MemberOf(m)' = None
      <4>1. task[p].pc = "unindex" /\ task[p].mac = m
        BY <1>2, <1>3, <2>2, Zenon
      <4>2. MemberOf(m) = None
        BY <2>1, <4>1, Zenon DEF TInv, Indexed
      <4> QED
        BY <1>6, <4>2, Zenon DEF Untouched
    <3>2. \A q \in Procs : \A x \in Targets(task'[q]) : x[2] # m
      BY <1>5, <1>8, <2>2, Zenon
    <3>3. \A q \in Procs : task'[q].mac = m => task'[q].pc # "unindex"
      BY <1>4, <1>8, <2>2, Zenon
    <3> QED
      BY <3>1, <3>2, <3>3, Zenon
  <2>3. CASE m # m0
    <3>1. MemberOf(m) # None =>
             \/ edgesByMAC[m] # None
             \/ \E q \in Procs : task'[q].pc = "index" /\ task'[q].mac = m
      <4>1. MemberOf(m) # None => \/ edgesByMAC[m] # None
                                  \/ \E q \in Procs : task[q].pc = "index" /\ task[q].mac = m
        BY <2>1, Zenon DEF TInv, Indexed
      <4>2. \A q \in Procs : task[q].pc = "index" => q # p
        BY <1>3, Zenon
      <4> QED
        BY <1>8, <4>1, <4>2, Zenon
    <3>2. ASSUME NEW q \in Procs, NEW x \in Targets(task'[q]), x[2] = m,
                 edges'[x[1]][m] # None
          PROVE  edgesByMAC[m] # None \/ task'[q].pc = "index"
      <4>1. x \in Targets(task[q]) /\ edges[x[1]][m] # None
        BY <1>6, <3>2, Zenon DEF Untouched
      <4>2. edgesByMAC[m] # None \/ task[q].pc = "index"
        BY <2>1, <3>2, <4>1, Zenon DEF TInv, Indexed
      <4> QED
        BY <1>3, <1>8, <4>2, Zenon
    <3>3. \A q \in Procs : task'[q].pc = "unindex" /\ task'[q].mac = m
             => edgesByMAC[m] # None /\ MemberOf(m) = None
      <4>1. \A q \in Procs : task[q].pc = "unindex" /\ task[q].mac = m
               => edgesByMAC[m] # None /\ MemberOf(m) = None
        BY <2>1, Zenon DEF TInv, Indexed
      <4> QED
        BY <1>4, <1>8, <4>1, Zenon
    <3> QED
      BY <1>6, <1>7, <2>3, <3>1, <3>2, <3>3, Zenon DEF Untouched
  <2> QED
    BY <2>2, <2>3, Zenon
<1>10. Agree'
  <2> SUFFICES ASSUME ~replaced', NEW m \in Macs, m \notin overlapped'
               PROVE  /\ (\A q \in Procs : task'[q].mac = m =>
                            task'[q].pc \notin {"index", "unindex"})
                           => edgesByMAC'[m] = MemberOf(m)'
                      /\ \A q \in Procs : task'[q].mac = m =>
                           /\ task'[q].pc = "index" => task'[q].obj = MemberOf(m)'
                           /\ task'[q].pc = "unindex" => MemberOf(m)' = None
                           /\ task'[q].pc = "p2p" => MemberOf(m)' # None
                      /\ \A c \in Cobjs : m \in p2pInfos'[c] =>
                           c = communities'[CommunityOf[m]] /\ MemberOf(m)' # None
    BY Zenon DEF Agree
  <2>1. ~replaced /\ m \notin overlapped
    BY <1>3, <1>8, Zenon
  <2>2. \A c \in Cobjs : m \in p2pInfos'[c] =>
           c = communities[CommunityOf[m]] /\ MemberOf(m) # None
    BY <1>6, <2>1, Zenon DEF TInv, Agree, Untouched
  <2>3. \A q \in Procs : task'[q].mac = m =>
           /\ task'[q].pc = "index" => task'[q].obj = MemberOf(m)
           /\ task'[q].pc = "unindex" => MemberOf(m) = None
           /\ task'[q].pc = "p2p" => MemberOf(m) # None
    <3>1. \A q \in Procs : task[q].mac = m =>
             /\ task[q].pc = "index" => task[q].obj = MemberOf(m)
             /\ task[q].pc = "unindex" => MemberOf(m) = None
             /\ task[q].pc = "p2p" => MemberOf(m) # None
      BY <2>1, Zenon DEF TInv, Agree
    <3> QED
      BY <1>4, <1>8, <3>1, Zenon
  <2>4. (\A q \in Procs : task'[q].mac = m => task'[q].pc \notin {"index", "unindex"})
          => edgesByMAC'[m] = MemberOf(m)
    <3>1. CASE m = m0
      BY <1>2, <1>3, <1>7, <2>1, <3>1, Zenon DEF TInv, Agree
    <3>2. CASE m # m0
      BY <1>2, <1>7, <1>8, <2>1, <3>2 DEF TInv, Agree
    <3> QED
      BY <3>1, <3>2, Zenon
  <2> QED
    BY <1>3, <1>6, <2>2, <2>3, <2>4, Zenon DEF Untouched
<1> QED
  BY <1>6, <1>9, <1>10, Zenon DEF TInv, Untouched

\* Community.Unregister takes the edge out of its Community.
LEMMA CommunityUnregisterKeeps ==
    ASSUME IInv, IInv', TInv, NEW p \in Procs, CommunityUnregister(p),
           edges[task[p].cm][task[p].mac] # None
    PROVE  TInv'
<1> USE SupernodeRegistryAssumption
<1>1. TaskOK(task[p]) /\ TargetsOK(task[p]) /\ task[p] \in Task
  BY TaskFacts, Zenon DEF TInv, Shapes
<1>2. PICK m0 \in Macs, c \in Cobjs : m0 = task[p].mac /\ c = task[p].cm
  BY <1>1, Zenon DEF CommunityUnregister, TaskOK
<1> DEFINE t == [task[p] EXCEPT !.pc = "unindex"]
           newEdges == [edges EXCEPT ![c][m0] = None]
           newInfos == [p2pInfos EXCEPT ![c] = @ \ {m0}]
<1>3. /\ task[p].pc = "unregister" /\ edges[c][m0] # None
      /\ Goto(p, t) /\ Store(newEdges, newInfos, edge)
      /\ SetEdgeCachedInfo(m0, "offline")
      /\ UNCHANGED <<communities, replaced, edgesByMAC>>
  BY <1>2, Zenon DEF CommunityUnregister
<1>4. t.pc = "unindex" /\ t.cm = c /\ t.mac = m0 /\ t.todo = task[p].todo
  BY <1>1, <1>2, Zenon DEF Task
<1>5. /\ newEdges[c][m0] = None
      /\ \A d \in Cobjs, m \in Macs : d # c \/ m # m0 => newEdges[d][m] = edges[d][m]
  BY DEF IInv, TablesTyped
<1>6. /\ newInfos \in [Cobjs -> SUBSET Macs]
      /\ m0 \notin newInfos[c]
      /\ \A d \in Cobjs, m \in Macs : m \in newInfos[d] => m \in p2pInfos[d]
  BY Zenon DEF TInv, Shapes
<1> HIDE DEF t, newEdges, newInfos
<1>7. /\ TargetsOK(t) /\ Targets(t) = Targets(task[p]) /\ <<c, m0>> \in Targets(task[p])
      /\ Busy(task[p], m0)
  BY <1>1, <1>2, <1>3, <1>4, Zenon DEF TargetsOK, Targets, Busy
<1>8. HandlerStep(p, t)
  BY <1>3, <1>7, StepFacts, Zenon
<1>9. \A q \in Procs : Targets(task'[q]) = Targets(task[q])
  BY <1>7, <1>8, Zenon DEF HandlerStep
<1>10. /\ \A h \in Communities : communities[h] # None =>
            edges'[communities[h]] = newEdges[communities[h]]
       /\ \A q \in Procs : \A x \in Targets(task'[q]) : edges'[x[1]] = newEdges[x[1]]
       /\ \A d \in Cobjs, m \in Macs : edges'[d][m] # None => edges'[d][m] = newEdges[d][m]
       /\ \A d \in Cobjs, m \in Macs : m \in p2pInfos'[d] => m \in newInfos[d]
  <2>1. \A q \in Procs : \A x \in Targets(task'[q]) : x[1] \in Cobjs
    BY <1>8, Zenon DEF HandlerStep
  <2>2. Store(newEdges, newInfos, edge) /\ communities' = communities
    BY <1>3, Zenon
  <2> QED
    <3>1. \A h \in Communities : communities[h] # None =>
             edges'[communities[h]] = newEdges[communities[h]]
      BY <2>2, StoreTables
    <3>2. \A q \in Procs : \A x \in Targets(task'[q]) : edges'[x[1]] = newEdges[x[1]]
      BY <2>1, <2>2, StoreTables
    <3>3. \A d \in Cobjs, m \in Macs : edges'[d][m] # None => edges'[d][m] = newEdges[d][m]
      BY <2>2, StoreTables
    <3>4. \A d \in Cobjs, m \in Macs : m \in p2pInfos'[d] => m \in newInfos[d]
      BY <2>2, StoreTables
    <3> QED
      BY <3>1, <3>2, <3>3, <3>4, Zenon
<1>11. \A d \in Cobjs, m \in Macs : edges'[d][m] # None => edges[d][m] # None
  <2> SUFFICES ASSUME NEW d \in Cobjs, NEW m \in Macs, edges'[d][m] # None
               PROVE  edges[d][m] # None
    BY Zenon
  <2>1. newEdges[d][m] # None
    BY <1>10, Zenon
  <2> QED
    BY <1>5, <2>1, Zenon
<1>12. \A m \in Macs : communities[CommunityOf[m]] \in Cobjs \cup {None}
  BY Zenon DEF IInv, TablesTyped
<1>13. /\ \A m \in Macs \ {m0} : MemberOf(m)' = MemberOf(m)
       /\ communities[CommunityOf[m0]] # c => MemberOf(m0)' = MemberOf(m0)
       /\ communities[CommunityOf[m0]] = c => MemberOf(m0)' = None
  <2>1. ASSUME NEW m \in Macs, communities[CommunityOf[m]] # None
        PROVE  edges'[communities[CommunityOf[m]]] = newEdges[communities[CommunityOf[m]]]
    BY <1>10, <2>1, SupernodeRegistryAssumption, Zenon
  <2>2. ASSUME NEW m \in Macs, m # m0 \/ communities[CommunityOf[m]] # c
        PROVE  MemberOf(m)' = MemberOf(m)
    <3>1. CASE communities[CommunityOf[m]] = None
      BY <1>3, <3>1, Zenon DEF MemberOf
    <3>2. CASE communities[CommunityOf[m]] # None
      <4>1. newEdges[communities[CommunityOf[m]]][m] = edges[communities[CommunityOf[m]]][m]
        BY <1>5, <1>12, <2>2, <3>2, Zenon
      <4> QED
        BY <1>3, <2>1, <3>2, <4>1 DEF MemberOf
    <3> QED
      BY <3>1, <3>2, Zenon
  <2>3. communities[CommunityOf[m0]] = c => MemberOf(m0)' = None
    BY <1>3, <1>5, <2>1, Zenon DEF MemberOf
  <2> QED
    BY <2>2, <2>3, Zenon
<1>14. Shapes'
  <2>1. p2pInfos' \in [Cobjs -> SUBSET Macs]
    BY <1>3, <1>6, StoreInfos, Zenon
  <2> QED
    BY <1>3, <1>8, <2>1, Zenon DEF Shapes, TInv, HandlerStep, SetEdgeCachedInfo
<1>15. Collected'
  BY <1>3, StoreCollects, Zenon
<1>16. OneHash'
  <2>1. ASSUME NEW h \in Communities, NEW m \in Macs,
               communities[h] # None, edges'[communities[h]][m] # None
        PROVE  CommunityOf[m] = h
    <3>1. communities[h] \in Cobjs
      BY <2>1, Zenon DEF IInv, TablesTyped
    <3> QED
      BY <1>11, <2>1, <3>1, Zenon DEF TInv, OneHash
  <2>2. OneHash /\ communities' = communities
    BY <1>3, Zenon DEF TInv
  <2> QED
    BY <1>9, <2>1, <2>2, OneHashKeeps
<1>17. ~replaced => c = communities[CommunityOf[m0]]
  <2>1. ~replaced => \A x \in Targets(task[p]) : x[1] = communities[CommunityOf[x[2]]]
    BY Zenon DEF TInv, Unreplaced
  <2> QED
    BY <1>7, <2>1
<1>18. Unreplaced'
  BY <1>3, <1>9, <1>11, Zenon DEF TInv, Unreplaced
<1>19. Displaced'
  <2> SUFFICES ASSUME NEW q \in Procs, NEW x \in Targets(task'[q]), x[2] \notin overlapped',
                      communities'[CommunityOf[x[2]]] # x[1]
               PROVE  MemberOf(x[2])' = None
    BY Zenon DEF Displaced
  <2>1. x[2] \in Macs /\ x[2] \notin overlapped
    BY <1>8, Zenon DEF HandlerStep
  <2>2. MemberOf(x[2]) = None
    BY <1>3, <1>9, <2>1, Zenon DEF TInv, Displaced
  <2> QED
    BY <1>13, <2>1, <2>2, Zenon
<1>20. m0 \notin overlapped' => MemberOf(m0)' = None
  <2>1. m0 \notin overlapped' => m0 \notin overlapped
    BY <1>8, Zenon DEF HandlerStep
  <2> QED
    BY <1>7, <1>13, <2>1, Zenon DEF TInv, Displaced
<1>21. Indexed'
  <2> SUFFICES ASSUME NEW m \in Macs, m \notin overlapped'
               PROVE  /\ MemberOf(m)' # None =>
                           \/ edgesByMAC'[m] # None
                           \/ \E q \in Procs : task'[q].pc = "index" /\ task'[q].mac = m
                      /\ \A q \in Procs : \A x \in Targets(task'[q]) :
                           x[2] = m /\ edges'[x[1]][m] # None
                             => edgesByMAC'[m] # None \/ task'[q].pc = "index"
                      /\ \A q \in Procs : task'[q].pc = "unindex" /\ task'[q].mac = m
                           => edgesByMAC'[m] # None /\ MemberOf(m)' = None
    BY Zenon DEF Indexed
  <2>1. m \notin overlapped
    BY <1>8, Zenon DEF HandlerStep
  <2>2. CASE m = m0
    <3>1. edgesByMAC[m] # None
      BY <1>3, <1>7, <2>1, <2>2, Zenon DEF TInv, Indexed
    <3> QED
      BY <1>3, <1>20, <2>2, <3>1, Zenon
  <2>3. CASE m # m0
    <3>1. MemberOf(m) # None =>
             \/ edgesByMAC[m] # None
             \/ \E q \in Procs : task'[q].pc = "index" /\ task'[q].mac = m
      BY <1>3, <1>8, <2>1 DEF TInv, Indexed, HandlerStep
    <3>2. ASSUME NEW q \in Procs, NEW x \in Targets(task'[q]), x[2] = m,
                 edges'[x[1]][m] # None
          PROVE  edgesByMAC[m] # None \/ task'[q].pc = "index"
      <4>1. x[1] \in Cobjs
        BY <1>8, Zenon DEF HandlerStep
      <4>2. x \in Targets(task[q]) /\ edges[x[1]][m] # None
        BY <1>9, <1>11, <3>2, <4>1, Zenon
      <4>3. edgesByMAC[m] # None \/ task[q].pc = "index"
        BY <2>1, <3>2, <4>2, Zenon DEF TInv, Indexed
      <4> QED
        BY <1>3, <1>8, <4>3, Zenon DEF HandlerStep
    <3>3. \A q \in Procs : task'[q].pc = "unindex" /\ task'[q].mac = m
             => edgesByMAC[m] # None /\ MemberOf(m) = None
      BY <1>4, <1>8, <2>1, <2>3 DEF TInv, Indexed, HandlerStep
    <3> QED
      BY <1>3, <1>13, <2>3, <3>1, <3>2, <3>3, Zenon
  <2> QED
    BY <2>2, <2>3, Zenon
<1>22. Agree'
  <2> SUFFICES ASSUME ~replaced', NEW m \in Macs, m \notin overlapped'
               PROVE  /\ (\A q \in Procs : task'[q].mac = m =>
                            task'[q].pc \notin {"index", "unindex"})
                           => edgesByMAC'[m] = MemberOf(m)'
                      /\ \A q \in Procs : task'[q].mac = m =>
                           /\ task'[q].pc = "index" => task'[q].obj = MemberOf(m)'
                           /\ task'[q].pc = "unindex" => MemberOf(m)' = None
                           /\ task'[q].pc = "p2p" => MemberOf(m)' # None
                      /\ \A d \in Cobjs : m \in p2pInfos'[d] =>
                           d = communities'[CommunityOf[m]] /\ MemberOf(m)' # None
    BY Zenon DEF Agree
  <2>1. ~replaced /\ m \notin overlapped
    BY <1>3, <1>8, Zenon DEF HandlerStep
  <2>2. \A d \in Cobjs : m \in p2pInfos'[d] =>
           /\ m \in newInfos[d]
           /\ d = communities[CommunityOf[m]] /\ MemberOf(m) # None
    BY <1>6, <1>10, <2>1, Zenon DEF TInv, Agree
  <2>3. CASE m = m0
    <3>1. MemberOf(m)' = None
      BY <1>20, <2>3, Zenon
    <3>2. \A d \in Cobjs : m \notin p2pInfos'[d]
      BY <1>6, <1>17, <2>1, <2>2, <2>3, Zenon
    <3>3. /\ task'[p].pc = "unindex" /\ task'[p].mac = m
          /\ \A q \in Procs \ {p} : task'[q].mac = m => task'[q].pc = "idle"
      BY <1>4, <1>7, <1>8, <2>3, Zenon DEF HandlerStep
    <3> QED
      BY <3>1, <3>2, <3>3, Zenon
  <2>4. CASE m # m0
    <3>1. MemberOf(m)' = MemberOf(m)
      BY <1>13, <2>4, Zenon
    <3>2. (\A q \in Procs : task'[q].mac = m => task'[q].pc \notin {"index", "unindex"})
             => edgesByMAC[m] = MemberOf(m)
      BY <1>3, <1>8, <2>1, Zenon DEF TInv, Agree, HandlerStep
    <3>3. \A q \in Procs : task'[q].mac = m =>
             /\ task'[q].pc = "index" => task'[q].obj = MemberOf(m)
             /\ task'[q].pc = "unindex" => MemberOf(m) = None
             /\ task'[q].pc = "p2p" => MemberOf(m) # None
      BY <1>4, <1>8, <2>1, <2>4 DEF TInv, Agree, HandlerStep
    <3> QED
      BY <1>3, <2>2, <3>1, <3>2, <3>3, Zenon
  <2> QED
    BY <2>3, <2>4, Zenon
<1>23. CachedInfosExact'
  <2> SUFFICES ASSUME ~replaced, NEW m \in Macs
               PROVE  edgeCachedInfos'[m] = "registered" <=> MemberOf(m)' # None
    BY <1>3, Zenon DEF CachedInfosExact
  <2>1. CASE m = m0
    BY <1>3, <1>13, <1>17, <2>1, Zenon DEF SetEdgeCachedInfo, TInv, Shapes
  <2>2. CASE m # m0
    BY <1>3, <1>13, <2>2, Zenon DEF SetEdgeCachedInfo, TInv, Shapes, CachedInfosExact
  <2> QED
    BY <2>1, <2>2, Zenon
<1>24. Solo'
  BY <1>8, Zenon DEF HandlerStep
<1> QED
  BY <1>14, <1>15, <1>16, <1>18, <1>19, <1>21, <1>22, <1>23, <1>24, Zenon DEF TInv

-----------------------------------------------------------------------------
(* The step *)

\* The variables the invariant is about.
tables == <<communities, edges, p2pInfos, edgesByMAC, edgeCachedInfos, task, replaced,
            overlapped>>

\* The invariant holds at the start ...
LEMMA InitTables == Init => TInv
<1> SUFFICES ASSUME Init PROVE TInv
  BY Zenon
<1> USE SupernodeRegistryAssumption
<1>1. \A p \in Procs : task[p] = Idle
  BY Zenon DEF Init
<1>2. /\ TargetsOK(Idle) /\ Targets(Idle) = {}
      /\ Idle.pc = "idle" /\ Idle.mac = None
      /\ \A m \in Macs : ~Busy(Idle, m)
  BY Zenon DEF TargetsOK, Targets, Idle, Busy
<1>3. \A m \in Macs : MemberOf(m) = None
  BY Zenon DEF Init, MemberOf
<1>4. Shapes
  BY <1>1, <1>2, Zenon DEF Init, Shapes
<1>5. Collected
  BY Zenon DEF Init, Collected
<1>6. OneHash /\ Solo /\ Unreplaced /\ Displaced
  BY <1>1, <1>2, Zenon DEF Init, OneHash, Solo, Unreplaced, Displaced, NoEdges
<1>7. Indexed
  BY <1>1, <1>2, <1>3, Zenon DEF Indexed
<1>8. Agree
  BY <1>1, <1>2, <1>3, Zenon DEF Init, Agree
<1>9. CachedInfosExact
  BY <1>3, Zenon DEF Init, CachedInfosExact
<1> QED
  BY <1>4, <1>5, <1>6, <1>7, <1>8, <1>9, Zenon DEF TInv

\* ... and after a restart.
LEMMA RestartTables == Restart => TInv'
<1> SUFFICES ASSUME Restart PROVE TInv'
  BY Zenon
<1> USE SupernodeRegistryAssumption
<1>1. \A p \in Procs : task'[p] = Idle
  BY Zenon DEF Restart
<1>2. /\ TargetsOK(Idle) /\ Targets(Idle) = {}
      /\ Idle.pc = "idle" /\ Idle.mac = None
      /\ \A m \in Macs : ~Busy(Idle, m)
  BY Zenon DEF TargetsOK, Targets, Idle, Busy
<1>3. \A m \in Macs : MemberOf(m)' = None
  BY Zenon DEF Restart, MemberOf
<1>4. Shapes'
  BY <1>1, <1>2, Zenon DEF Restart, Shapes
<1>5. Collected'
  BY Zenon DEF Restart, Collected
<1>6. OneHash' /\ Solo' /\ Unreplaced' /\ Displaced'
  BY <1>1, <1>2, Zenon DEF Restart, OneHash, Solo, Unreplaced, Displaced, NoEdges
<1>7. Indexed'
  BY <1>1, <1>2, <1>3, Zenon DEF Indexed
<1>8. Agree'
  BY <1>1, <1>2, <1>3, Zenon DEF Restart, Agree
<1>9. CachedInfosExact'
  BY <1>3, Zenon DEF Restart, CachedInfosExact
<1> QED
  BY <1>4, <1>5, <1>6, <1>7, <1>8, <1>9, Zenon DEF TInv

\* A step that touches none of the tables.
LEMMA TablesUnchanged == TInv /\ UNCHANGED tables => TInv'
<1> SUFFICES ASSUME TInv, UNCHANGED tables PROVE TInv'
  BY Zenon
<1>1. /\ UNCHANGED <<communities, edges, p2pInfos, edgesByMAC>>
      /\ UNCHANGED <<edgeCachedInfos, task, replaced, overlapped>>
  BY Zenon DEF tables
<1>2. LiveCobjs' = LiveCobjs /\ \A m \in Macs : MemberOf(m)' = MemberOf(m)
  BY <1>1, Zenon DEF LiveCobjs, MemberOf
<1>3. Shapes' /\ Collected'
  BY <1>1, <1>2, Zenon DEF TInv, Shapes, Collected
<1>4. OneHash' /\ Solo' /\ Unreplaced'
  BY <1>1, Zenon DEF TInv, OneHash, Solo, Unreplaced
<1>5. Displaced'
  BY <1>1, Zenon DEF TInv, Displaced, MemberOf
<1>6. Indexed'
  BY <1>1, <1>2 DEF TInv, Indexed
<1>7. Agree'
  BY <1>1, <1>2 DEF TInv, Agree
<1>8. CachedInfosExact'
  BY <1>1, Zenon DEF TInv, CachedInfosExact, MemberOf
<1> QED
  BY <1>3, <1>4, <1>5, <1>6, <1>7, <1>8, Zenon DEF TInv

\* Every step keeps the invariant.
LEMMA NextTables == IInv /\ IInv' /\ TInv /\ [Next]_vars => TInv'
<1> SUFFICES ASSUME IInv, IInv', TInv, [Next]_vars PROVE TInv'
  BY Zenon
<1>1. CASE UNCHANGED vars
  BY <1>1, TablesUnchanged, Zenon DEF vars, tables
<1>2. ASSUME NEW p \in Workers, Request(p)
      PROVE  TInv'
  BY <1>2, RequestKeeps, Zenon DEF Procs
<1>3. ASSUME NEW p \in Cleaners, Cleanup(p)
      PROVE  TInv'
  BY <1>3, CleanupKeeps, Zenon DEF Cleanup, Procs
<1>4. ASSUME NEW p \in Procs, CreateCommunity(p) \/ IndexEdge(p) \/ CleanupNext(p)
      PROVE  TInv'
  BY <1>4, CreateCommunityKeeps, IndexEdgeKeeps, CleanupKeeps, Zenon
<1>5. ASSUME NEW p \in Procs, EdgeUpdate(p)
      PROVE  TInv'
  BY <1>5, EdgeUpdateKeeps, NewEdgeKeeps, Zenon
<1>6. ASSUME NEW p \in Procs, CommunityUnregister(p)
      PROVE  TInv'
  BY <1>6, StoresKeep, CommunityUnregisterKeeps, Zenon
<1>7. ASSUME NEW p \in Procs, OnEdgeUnregistered(p)
      PROVE  TInv'
  <2>1. CASE edgesByMAC[task[p].mac] = None
    <3>1. UNCHANGED tables
      BY <1>7, <2>1, Zenon DEF OnEdgeUnregistered, tables
    <3> QED
      BY <3>1, TablesUnchanged, Zenon
  <2>2. CASE edgesByMAC[task[p].mac] # None
    BY <1>7, <2>2, OnEdgeUnregisteredKeeps, Zenon
  <2> QED
    BY <2>1, <2>2, Zenon
<1>8. ASSUME NEW p \in Procs, RefreshEdge(p) \/ SetP2PInfos(p)
      PROVE  TInv'
  BY <1>8, StoresKeep, Zenon
<1>9. CASE Environment
  <2>1. UNCHANGED tables
    BY <1>9, Zenon DEF Environment, WSSUpgrade, WSSClose, Expire, tables
  <2> QED
    BY <2>1, TablesUnchanged, Zenon
<1>10. CASE Restart
  BY <1>10, RestartTables, Zenon
<1> QED
  BY <1>1, <1>2, <1>3, <1>4, <1>5, <1>6, <1>7, <1>8, <1>9, <1>10, Zenon DEF Next,
     Continue

\* The invariant of the tables, for the theorems.
LEMMA TablesInv == Spec => [](IInv /\ TInv)
  BY InitInv, NextInv, InitTables, NextTables, PTL DEF Spec

-----------------------------------------------------------------------------
(* The theorems *)

\* Unless a community was replaced, edgeCachedInfos lists exactly the members of
\* the communities as registered, at any point of any handler (EdgeUpdate and
\* Unregister write it under the community's lock).
THEOREM CachedInfosAlwaysExact == Spec => []CachedInfosExact
<1>1. TInv => CachedInfosExact
  BY Zenon DEF TInv
<1> QED
  BY <1>1, TablesInv, PTL

\* The index of the fast path has exactly the edges of the communities, and only
\* members have P2P informations, for every edge no handler is working on, that
\* no two handlers worked on at a time (registrations, cleanups and
\* unregistrations, in any number and order).
THEOREM TablesAlwaysAgree == Spec => []TablesAgree
<1>1. IInv /\ TInv => TablesAgree
  <2> SUFFICES ASSUME IInv, TInv, ~replaced, NEW m \in Macs, m \notin overlapped,
                      \A p \in Procs : ~Busy(task[p], m)
               PROVE  /\ edgesByMAC[m] = MemberOf(m)
                      /\ \A c \in Cobjs : m \in p2pInfos[c] =>
                           c = communities[CommunityOf[m]] /\ MemberOf(m) # None
    BY Zenon DEF TablesAgree
  <2>1. \A p \in Procs : task[p].mac = m => task[p].pc \notin {"index", "unindex"}
    BY Zenon DEF Busy
  <2> QED
    BY <2>1, Zenon DEF TInv, Agree
<1> QED
  BY <1>1, TablesInv, PTL

\* onEdgeUnregistered finds the edge it dereferences in edgesByMAC, even when
\* Communities were replaced, unless another handler worked on the same edge.
THEOREM AlwaysIndexedAtUnregister == Spec => []IndexedAtUnregister
<1>1. IInv /\ TInv => IndexedAtUnregister
  <2> SUFFICES ASSUME IInv, TInv, NEW p \in Procs, task[p].pc = "unindex",
                      task[p].mac \notin overlapped
               PROVE  edgesByMAC[task[p].mac] # None
    BY Zenon DEF IndexedAtUnregister
  <2>1. task[p].mac \in Macs
    BY TaskFacts, Zenon DEF TaskOK
  <2> QED
    BY <2>1, Zenon DEF TInv, Indexed
<1> QED
  BY <1>1, TablesInv, PTL

=====
