------------------------- MODULE PeerRegistryProofs -------------------------
(* Proofs about PeerRegistry, for every set of peers, announcements and     *)
(* objects and for every MaxTTL.                                            *)
EXTENDS PeerRegistry, TLAPS

(***************************************************************************)
(* The inductive invariant.                                                *)
(***************************************************************************)

\* The registry maps a MAC address to an allocated object of that address.
PeersAllocated ==
    \A m \in Macs : Peers[m] # NoPeer =>
        heap[Peers[m]] \in Peer /\ heap[Peers[m]].mac = m

\* The objects that handleP2PUpdates still has to ping, or is pinging, are
\* allocated; and it is pinging one exactly in the middle of PingPeer.
UpdAllocated ==
    /\ \A o \in upd.todo : heap[o] \in Peer
    /\ upd.pc \in {"write", "send"} => upd.obj \in Objs /\ heap[upd.obj] \in Peer
    /\ upd.pc \in {"collect", "next"} => upd.obj = NoPeer
    /\ upd.obj \notin upd.todo

\* What handleP2PUpdates is about to write was decided on the pendingTTL that
\* the object still has: no other goroutine changes it.
UpdDecision ==
    upd.pc = "write" /\ heap[upd.obj].ttl < 1 => upd.write = "Unavailable"

\* handleUDP updates a peer that is in the registry, and never to Pending.
UdpDecision ==
    udp.pc \in {"pong", "info"} =>
        /\ udp.obj \in Objs
        /\ heap[udp.obj] \in Peer
        /\ Peers[heap[udp.obj].mac] = udp.obj
        /\ udp.write # "Pending"

\* The edge of a peer answered a ping, or was reported as reachable.
Reached(m) == \E s \in Socks : <<m, s>> \in answered

\* No peer is Available, and no goroutine is about to make one Available, before
\* its edge was reached: pongs come from edges that were, the Available loop
\* walks peers that were, and a peer object never changes its MAC address.
ReachedFirst ==
    /\ \A o \in Objs : heap[o] # Free /\ heap[o].status = "Available" =>
          Reached(heap[o].mac)
    /\ upd.phase = "Available" => \A o \in upd.todo : Reached(heap[o].mac)
    /\ upd.pc = "write" /\ upd.write = "Available" => Reached(heap[upd.obj].mac)
    /\ udp.pc \in {"pong", "info"} /\ udp.write = "Available" =>
          Reached(heap[udp.obj].mac)
    /\ \A pong \in pongs : Reached(pong.mac)

IInv ==
    /\ TypeOK
    /\ PeersAllocated
    /\ UpdAllocated
    /\ UpdDecision
    /\ UdpDecision
    /\ PendingHasTTL
    /\ BySocketSound
    /\ ReachedFirst
-----------------------------------------------------------------------------
(* UpdateP2PStatus *)

\* A decision never leaves the type of the fields, never asks for Pending when
\* no attempt is left, and asks for Pending or Available only if it was asked to
\* (p2p.go, UpdateP2PStatus).
LEMMA DecisionFacts ==
    ASSUME NEW p \in Peer, NEW status \in Capacity, NEW check \in CheckIDs,
           p.status = "Pending" => p.ttl >= 1
    PROVE  /\ NextTTL(p, status) \in 0..MaxTTL
           /\ WrittenStatus(p, status) \in Capacity
           /\ WrittenCheck(p, status, check) \in CheckIDs
           /\ NextTTL(p, status) < 1 => WrittenStatus(p, status) = "Unavailable"
           /\ WrittenStatus(p, status) \in {status, "Unavailable"}
<1>1. p.ttl \in 0..MaxTTL /\ p.status \in Capacity
  BY Zenon DEF Peer
<1>2. NoCheck \in CheckIDs /\ "Unavailable" \in Capacity
  BY Zenon DEF CheckIDs, Capacity
<1> QED
  BY <1>1, <1>2, PeerRegistryAssumption
     DEF NextTTL, WrittenStatus, WrittenCheck, Capacity

\* What AddPeer and RemovePeer leave of the registry (p2p.go): the two maps
\* still lead to allocated objects, and an object that stays allocated keeps
\* its MAC address and its pendingTTL, and its status unless that is reset.
RegistryKept ==
    /\ Peers' \in [Macs -> Objs \cup {NoPeer}]
    /\ peerBySocket' \in [Socks -> Objs \cup {NoPeer}]
    /\ heap' \in [Objs -> Peer \cup {Free}]
    /\ hasPendingChanges' \in BOOLEAN
    /\ PeersAllocated'
    /\ BySocketSound'
    /\ \A o \in Objs : Held(o) /\ heap[o] \in Peer =>
          /\ heap'[o] \in Peer
          /\ heap'[o].mac = heap[o].mac
          /\ heap'[o].ttl = heap[o].ttl
    /\ \A o \in Objs : heap'[o] # Free /\ heap'[o].status # "Unknown" =>
          /\ heap[o] \in Peer
          /\ heap'[o].status = heap[o].status
          /\ heap'[o].mac = heap[o].mac
          /\ heap'[o].ttl = heap[o].ttl

\* AddPeer keeps the two maps in order (p2p.go, AddPeer).
LEMMA AddPeerKeeps ==
    ASSUME IInv, NEW m \in Macs, NEW i \in Infos, AddPeer(m, i)
    PROVE  RegistryKept
<1> USE PeerRegistryAssumption
<1>1. i.sock \in Socks
  BY Zenon DEF Socks
<1>2. CASE Peers[m] # NoPeer
  <2> DEFINE o == Peers[m]
  <2>1. o \in Objs /\ heap[o] \in Peer /\ heap[o].mac = m
    BY <1>2, Zenon DEF IInv, TypeOK, PeersAllocated
  <2>2. heap[o].info.sock \in Socks
    BY <2>1, Zenon DEF Peer, Socks
  <2>3. /\ heap' = [heap EXCEPT ![o] = UpdatedPeer(heap[o], i)]
        /\ peerBySocket' = [peerBySocket EXCEPT ![heap[o].info.sock] = NoPeer,
                                                ![i.sock] = o]
        /\ hasPendingChanges' = TRUE
        /\ Peers' = Peers
    BY <1>2, Zenon DEF AddPeer, IInv, TypeOK
  <2>4. /\ UpdatedPeer(heap[o], i) \in Peer
        /\ UpdatedPeer(heap[o], i).mac = m
        /\ UpdatedPeer(heap[o], i).info = i
        /\ UpdatedPeer(heap[o], i).ttl = heap[o].ttl
        /\ UpdatedPeer(heap[o], i).status \in {"Unknown", heap[o].status}
    BY <2>1, Zenon DEF UpdatedPeer, Peer, Capacity, CheckIDs
  <2> HIDE DEF o
  <2>5. /\ heap'[o] = UpdatedPeer(heap[o], i)
        /\ \A x \in Objs : x # o => heap'[x] = heap[x]
        /\ heap' \in [Objs -> Peer \cup {Free}]
    BY <2>1, <2>3, <2>4, Zenon DEF IInv, TypeOK
  <2>6. /\ peerBySocket'[i.sock] = o
        /\ \A s \in Socks : s # i.sock =>
              peerBySocket'[s] = IF s = heap[o].info.sock THEN NoPeer
                                 ELSE peerBySocket[s]
        /\ peerBySocket' \in [Socks -> Objs \cup {NoPeer}]
    BY <1>1, <2>1, <2>2, <2>3, Zenon DEF IInv, TypeOK
  <2>7. PeersAllocated'
    BY <2>1, <2>3, <2>4, <2>5 DEF IInv, TypeOK, PeersAllocated
  <2>8. BySocketSound'
    <3> SUFFICES ASSUME NEW s \in Socks, peerBySocket'[s] # NoPeer
                 PROVE  /\ Live(peerBySocket[s])'
                        /\ heap'[peerBySocket'[s]].info.sock = s
      BY Zenon DEF BySocketSound
    <3>1. CASE s = i.sock
      BY <3>1, <2>1, <2>3, <2>4, <2>5, <2>6, Peers[m] = o, Zenon DEF Live, o
    <3>2. CASE s # i.sock
      <4>1. s # heap[o].info.sock /\ peerBySocket'[s] = peerBySocket[s]
        BY <3>2, <2>6, Zenon
      <4>2. Live(peerBySocket[s]) /\ heap[peerBySocket[s]].info.sock = s
        BY <4>1, Zenon DEF IInv, BySocketSound
      <4>3. peerBySocket[s] # o /\ peerBySocket[s] \in Objs
        BY <4>1, <4>2, Zenon DEF IInv, TypeOK
      <4> QED
        BY <4>1, <4>2, <4>3, <2>3, <2>5, Zenon DEF Live
    <3> QED
      BY <3>1, <3>2, Zenon
  <2> QED
    BY <2>1, <2>3, <2>4, <2>5, <2>6, <2>7, <2>8 DEF RegistryKept, IInv, TypeOK
<1>3. CASE Peers[m] = NoPeer
  <2>1. PICK o \in Objs :
          /\ heap[o] = Free
          /\ heap' = [heap EXCEPT ![o] = NewPeer(m, i)]
          /\ Peers' = [Peers EXCEPT ![m] = o]
          /\ peerBySocket' = [peerBySocket EXCEPT ![i.sock] = o]
    BY <1>3, Zenon DEF AddPeer
  <2>2. hasPendingChanges' = TRUE
    BY <1>3, Zenon DEF AddPeer, IInv, TypeOK
  <2>3. /\ NewPeer(m, i) \in Peer
        /\ NewPeer(m, i).mac = m
        /\ NewPeer(m, i).info = i
        /\ NewPeer(m, i).status = "Unknown"
    BY DEF NewPeer, Peer, Capacity, CheckIDs
  <2>4. /\ heap'[o] = NewPeer(m, i)
        /\ \A x \in Objs : x # o => heap'[x] = heap[x]
        /\ heap' \in [Objs -> Peer \cup {Free}]
    BY <2>1, <2>3, Zenon DEF IInv, TypeOK
  <2>5. /\ Peers'[m] = o
        /\ \A n \in Macs : n # m => Peers'[n] = Peers[n]
        /\ Peers' \in [Macs -> Objs \cup {NoPeer}]
    BY <2>1, Zenon DEF IInv, TypeOK
  <2>6. /\ peerBySocket'[i.sock] = o
        /\ \A s \in Socks : s # i.sock => peerBySocket'[s] = peerBySocket[s]
        /\ peerBySocket' \in [Socks -> Objs \cup {NoPeer}]
    BY <1>1, <2>1, Zenon DEF IInv, TypeOK
  <2>7. PeersAllocated'
    BY <2>1, <2>3, <2>4, <2>5 DEF IInv, TypeOK, PeersAllocated
  <2>8. BySocketSound'
    <3> SUFFICES ASSUME NEW s \in Socks, peerBySocket'[s] # NoPeer
                 PROVE  /\ Live(peerBySocket[s])'
                        /\ heap'[peerBySocket'[s]].info.sock = s
      BY Zenon DEF BySocketSound
    <3>1. CASE s = i.sock
      BY <3>1, <2>3, <2>4, <2>5, <2>6 DEF Live
    <3>2. CASE s # i.sock
      <4>1. peerBySocket'[s] = peerBySocket[s] /\ peerBySocket[s] \in Objs
        BY <3>2, <2>6, Zenon DEF IInv, TypeOK
      <4>2. Live(peerBySocket[s]) /\ heap[peerBySocket[s]].info.sock = s
        BY <4>1, Zenon DEF IInv, BySocketSound
      <4>3. peerBySocket[s] # o
        BY <4>2, <2>1, Zenon DEF Live
      <4>4. heap[peerBySocket[s]] \in Peer
        BY <4>1, <4>2, Zenon DEF IInv, TypeOK, Live
      <4>5. heap[peerBySocket[s]].mac \in Macs /\ heap[peerBySocket[s]].mac # m
        BY <4>2, <4>4, <1>3, Zenon DEF Live, Peer
      <4> QED
        BY <4>1, <4>2, <4>3, <4>5, <2>4, <2>5 DEF Live
    <3> QED
      BY <3>1, <3>2, Zenon
  <2> QED
    BY <2>1, <2>2, <2>3, <2>4, <2>5, <2>6, <2>7, <2>8 DEF RegistryKept, IInv, TypeOK
<1> QED
  BY <1>2, <1>3, Zenon

\* So does RemovePeer (p2p.go, RemovePeer).
LEMMA RemovePeerKeeps ==
    ASSUME IInv, NEW m \in Macs, RemovePeer(m)
    PROVE  RegistryKept
<1> USE PeerRegistryAssumption
<1>1. CASE Peers[m] = NoPeer
  <2>1. UNCHANGED <<Peers, peerBySocket, heap, hasPendingChanges>>
    BY <1>1, Zenon DEF RemovePeer
  <2> QED
    BY <2>1 DEF RegistryKept, IInv, TypeOK, PeersAllocated, BySocketSound, Live
<1>2. CASE Peers[m] # NoPeer
  <2>1. PICK o : o = Peers[m]
    BY Zenon
  <2>2. o \in Objs /\ heap[o] \in Peer /\ heap[o].mac = m
    BY <1>2, <2>1, Zenon DEF IInv, TypeOK, PeersAllocated
  <2>3. heap[o].info.sock \in Socks
    BY <2>2, Zenon DEF Peer, Socks
  <2>4. /\ heap' = [heap EXCEPT ![o] = IF Held(o) THEN heap[o] ELSE Free]
        /\ peerBySocket' = [peerBySocket EXCEPT ![heap[o].info.sock] = NoPeer]
        /\ Peers' = [Peers EXCEPT ![m] = NoPeer]
        /\ hasPendingChanges' = TRUE
    BY <1>2, <2>1, Zenon DEF RemovePeer, IInv, TypeOK
  <2>5. /\ \A x \in Objs : x # o \/ Held(x) => heap'[x] = heap[x]
        /\ \A x \in Objs : heap'[x] # Free => heap'[x] = heap[x]
        /\ heap' \in [Objs -> Peer \cup {Free}]
    BY <2>2, <2>4, Zenon DEF IInv, TypeOK
  <2>6. /\ Peers'[m] = NoPeer
        /\ \A n \in Macs : n # m => Peers'[n] = Peers[n]
        /\ Peers' \in [Macs -> Objs \cup {NoPeer}]
    BY <2>4, Zenon DEF IInv, TypeOK
  <2>7. /\ peerBySocket'[heap[o].info.sock] = NoPeer
        /\ \A s \in Socks : s # heap[o].info.sock =>
              peerBySocket'[s] = peerBySocket[s]
        /\ peerBySocket' \in [Socks -> Objs \cup {NoPeer}]
    BY <2>3, <2>4, Zenon DEF IInv, TypeOK
  <2>8. PeersAllocated'
    <3> SUFFICES ASSUME NEW n \in Macs, Peers'[n] # NoPeer
                 PROVE  heap'[Peers'[n]] \in Peer /\ heap'[Peers'[n]].mac = n
      BY Zenon DEF PeersAllocated
    <3>1. n # m /\ Peers'[n] = Peers[n] /\ Peers[n] \in Objs
      BY <2>6, Zenon DEF IInv, TypeOK
    <3>2. heap[Peers[n]] \in Peer /\ heap[Peers[n]].mac = n
      BY <3>1, Zenon DEF IInv, PeersAllocated
    <3> QED
      BY <3>1, <3>2, <2>2, <2>5, Zenon
  <2>9. BySocketSound'
    <3> SUFFICES ASSUME NEW s \in Socks, peerBySocket'[s] # NoPeer
                 PROVE  /\ Live(peerBySocket[s])'
                        /\ heap'[peerBySocket'[s]].info.sock = s
      BY Zenon DEF BySocketSound
    <3>1. s # heap[o].info.sock /\ peerBySocket'[s] = peerBySocket[s]
      BY <2>7, Zenon
    <3>2. Live(peerBySocket[s]) /\ heap[peerBySocket[s]].info.sock = s
      BY <3>1, Zenon DEF IInv, BySocketSound
    <3>3. peerBySocket[s] # o /\ peerBySocket[s] \in Objs
      BY <3>1, <3>2, Zenon DEF IInv, TypeOK
    <3>4. heap[peerBySocket[s]].mac \in Macs
      BY <3>2, <3>3, Zenon DEF IInv, TypeOK, Live, Peer
    <3>5. heap[peerBySocket[s]].mac # m
      BY <3>2, <3>3, <2>1, Zenon DEF Live
    <3> QED
      BY <3>1, <3>2, <3>3, <3>4, <3>5, <2>5, <2>6 DEF Live
  <2> QED
    BY <2>2, <2>4, <2>5, <2>6, <2>7, <2>8, <2>9 DEF RegistryKept, IInv, TypeOK
<1> QED
  BY <1>1, <1>2, Zenon

-----------------------------------------------------------------------------
(* Preservation of the invariant, one lemma per kind of step *)

UdpType == [pc: {"idle", "pong", "info", "list"}, obj: Objs \cup {NoPeer},
            write: Capacity, wcheck: CheckIDs, changed: BOOLEAN,
            direct: BOOLEAN, adds: SUBSET (Macs \X Infos), keep: SUBSET Macs]

UpdType == [phase: {"Unknown", "Pending", "Available"},
            pc: {"collect", "next", "write", "send"},
            todo: SUBSET Objs, obj: Objs \cup {NoPeer}, check: CheckIDs,
            write: Capacity, wcheck: CheckIDs, changed: BOOLEAN]

\* handleUDP between two messages has its type.
LEMMA UdpIdleType == UdpIdle \in UdpType /\ UdpIdle.pc = "idle"
BY Zenon DEF UdpIdle, UdpType, Capacity, CheckIDs

\* So has handleP2PUpdates between two calls of PingPeer.
LEMMA UpdIdleType ==
    ASSUME NEW phase \in {"Unknown", "Pending", "Available"},
           NEW todo \in SUBSET Objs, NEW pc \in {"collect", "next"}
    PROVE  /\ UpdIdle(phase, todo, pc) \in UpdType
           /\ UpdIdle(phase, todo, pc).pc = pc
           /\ UpdIdle(phase, todo, pc).todo = todo
           /\ UpdIdle(phase, todo, pc).obj = NoPeer
           /\ UpdIdle(phase, todo, pc).phase = phase
BY Zenon DEF UpdIdle, UpdType, Capacity, CheckIDs

\* A new registry satisfies the invariant (p2p.go, NewPeerRegistry).
LEMMA InitIInv == Init => IInv
<1> SUFFICES ASSUME Init PROVE IInv
  BY Zenon
<1>1. TypeOK
  BY UdpIdleType, UpdIdleType, Zenon DEF Init, TypeOK, UdpType, UpdType
<1>2. PeersAllocated /\ BySocketSound /\ PendingHasTTL
  BY Zenon DEF Init, PeersAllocated, BySocketSound, PendingHasTTL
<1>3. UpdAllocated /\ UpdDecision /\ UdpDecision
  BY UdpIdleType, UpdIdleType DEF Init, UpdAllocated, UpdDecision, UdpDecision
<1>4. ReachedFirst
  BY UdpIdleType, UpdIdleType, Zenon DEF Init, ReachedFirst
<1> QED
  BY <1>1, <1>2, <1>3, <1>4, Zenon DEF IInv

\* Steps of handleUDP that change the registry: peer-list events.
LEMMA EventStep ==
    ASSUME IInv, RegistryKept, udp' \in UdpType, udp'.pc \in {"idle", "list"},
           UNCHANGED <<upd, pings, pongs, answered>>
    PROVE  IInv'
<1> USE PeerRegistryAssumption
<1>1. TypeOK'
  BY Zenon DEF RegistryKept, IInv, TypeOK, UdpType
<1>2. UpdAllocated'
  BY Zenon DEF RegistryKept, IInv, TypeOK, UpdAllocated, Held
<1>3. UpdDecision'
  <2> SUFFICES ASSUME upd.pc = "write", heap'[upd.obj].ttl < 1
               PROVE  upd.write = "Unavailable"
    BY Zenon DEF UpdDecision
  <2>1. upd.obj \in Objs /\ heap[upd.obj] \in Peer /\ Held(upd.obj)
    BY Zenon DEF IInv, UpdAllocated, Held
  <2>2. heap'[upd.obj].ttl = heap[upd.obj].ttl
    BY <2>1, Zenon DEF RegistryKept
  <2> QED
    BY <2>2, Zenon DEF IInv, UpdDecision
<1>4. UdpDecision'
  BY Zenon DEF UdpDecision
<1>5. PendingHasTTL'
  BY Zenon DEF RegistryKept, IInv, PendingHasTTL
<1>6. ReachedFirst'
  <2>1. ASSUME NEW o \in Objs, heap'[o] # Free, heap'[o].status = "Available"
        PROVE  Reached(heap'[o].mac)
    <3>1. heap[o] \in Peer /\ heap[o].status = "Available" /\ heap'[o].mac = heap[o].mac
      BY <2>1, Zenon DEF RegistryKept
    <3>2. Reached(heap[o].mac)
      BY <3>1, Zenon DEF IInv, ReachedFirst
    <3> QED
      BY <3>1, <3>2, Zenon
  <2>2. \A o \in upd.todo : heap'[o].mac = heap[o].mac
    BY Zenon DEF RegistryKept, Held, IInv, TypeOK, UpdAllocated
  <2>3. upd.pc = "write" => heap'[upd.obj].mac = heap[upd.obj].mac
    BY Zenon DEF RegistryKept, Held, IInv, UpdAllocated
  <2> QED
    BY <2>1, <2>2, <2>3, Zenon DEF IInv, ReachedFirst, Reached
<1> QED
  BY <1>1, <1>2, <1>3, <1>4, <1>5, <1>6, Zenon DEF RegistryKept, IInv

\* Steps that leave the maps and the objects alone.
LEMMA OtherStep ==
    ASSUME IInv, TypeOK', UNCHANGED <<Peers, peerBySocket, heap>>,
           \/ upd' = upd
           \/ /\ upd.pc = "next"
              /\ upd'.pc = "collect" /\ upd'.obj = NoPeer /\ upd'.todo = {},
           UdpDecision', answered \subseteq answered',
           \A pong \in pongs' : pong \in pongs \/ Reached(pong.mac)',
           \/ udp' = udp \/ udp'.pc \notin {"pong", "info"}
           \/ Reached(heap[udp.obj].mac)'
    PROVE  IInv'
<1>1. \A m : Reached(m) => Reached(m)'
  BY Zenon DEF Reached
<1>2. ReachedFirst'
  BY <1>1, Zenon DEF IInv, ReachedFirst
<1> QED
  BY <1>2, Zenon DEF IInv, PeersAllocated, UpdAllocated, UpdDecision, PendingHasTTL,
       BySocketSound, Live

\* The first half of UpdateP2PStatus in handleUDP (handlers.go,
\* handlePingMessage; handlers_missing.go, handleP2PStateInfoMessage).
LEMMA UdpTestStep ==
    ASSUME IInv, NEW m \in Macs, Peers[m] # NoPeer,
           NEW status \in Capacity \ {"Pending"}, NEW check \in CheckIDs,
           NEW pc \in {"pong", "info"}, NEW direct \in BOOLEAN,
           udp.pc = "idle", UdpTest(Peers[m], status, check, pc, direct)
    PROVE  /\ udp' \in UdpType
           /\ udp'.obj = Peers[m]
           /\ udp'.write # "Pending"
<1>1. Peers[m] \in Objs /\ heap[Peers[m]] \in Peer
  BY Zenon DEF IInv, TypeOK, PeersAllocated
<1>2. heap[Peers[m]].status \in Capacity /\ heap[Peers[m]].ttl \in 0..MaxTTL
  BY <1>1, Zenon DEF Peer
<1>3. /\ WrittenStatus(heap[Peers[m]], status) \in Capacity \ {"Pending"}
      /\ WrittenCheck(heap[Peers[m]], status, check) \in CheckIDs
  BY <1>2, Zenon DEF WrittenStatus, WrittenCheck, NextTTL, Capacity, CheckIDs
<1> QED
  BY <1>1, <1>3, UdpIdleType DEF UdpTest, UdpType, UdpIdle

\* The pong handler up to its writes (handlers.go, handlePingMessage).
LEMMA HandlePongStep ==
    ASSUME IInv, NEW pong \in pongs, HandlePong(pong)
    PROVE  IInv'
<1>1. pong.mac \in Macs /\ pong.check \in CheckIDs /\ pong.fromSN \in BOOLEAN
  BY Zenon DEF IInv, TypeOK
<1>2. UNCHANGED <<Peers, peerBySocket, heap, hasPendingChanges, upd,
                  pings, answered>> /\ udp.pc = "idle"
      /\ pongs' \subseteq pongs
  BY Zenon DEF HandlePong
<1>3. CASE Peers[pong.mac] = NoPeer
  <2>1. udp' = udp
    BY <1>3, Zenon DEF HandlePong
  <2>2. TypeOK' /\ UdpDecision'
    BY <1>2, <2>1 DEF IInv, TypeOK, UdpDecision
  <2> QED
    BY <1>2, <2>1, <2>2, OtherStep, Zenon
<1>4. CASE Peers[pong.mac] # NoPeer
  <2>1. \E status \in Capacity \ {"Pending"}, check \in CheckIDs :
          UdpTest(Peers[pong.mac], status, check, "pong", ~pong.fromSN)
    BY <1>1, <1>4, Zenon DEF HandlePong, Capacity, CheckIDs
  <2>2. udp' \in UdpType /\ udp'.obj = Peers[pong.mac] /\ udp'.write # "Pending"
    BY <1>1, <1>2, <1>4, <2>1, UdpTestStep, Zenon
  <2>3. UdpDecision'
    BY <1>1, <1>2, <1>4, <2>2 DEF UdpDecision, IInv, PeersAllocated, TypeOK
  <2>4. TypeOK'
    BY <1>2, <2>2, Zenon DEF IInv, TypeOK, UdpType
  <2>5. heap[Peers[pong.mac]].mac = pong.mac
    BY <1>1, <1>4, Zenon DEF IInv, PeersAllocated
  <2>6. Reached(pong.mac)
    BY Zenon DEF IInv, ReachedFirst
  <2>7. Reached(heap[udp.obj].mac)'
    BY <1>2, <2>2, <2>5, <2>6, Zenon DEF Reached
  <2> QED
    BY <1>2, <2>3, <2>4, <2>7, OtherStep, Zenon
<1> QED
  BY <1>3, <1>4, Zenon

\* P2P state messages (handlers_missing.go, handleP2PStateInfoMessage).
LEMMA HandleP2PStateInfoStep ==
    ASSUME IInv, NEW m \in Macs, HandleP2PStateInfo(m)
    PROVE  IInv'
<1>1. UNCHANGED <<Peers, peerBySocket, heap, hasPendingChanges, upd,
                  pings, pongs>>
      /\ answered' = answered \cup {<<m, heap[Peers[m]].info.sock>>}
      /\ udp.pc = "idle" /\ Peers[m] # NoPeer
      /\ UdpTest(Peers[m], "Available", NoCheck, "info", FALSE)
  BY Zenon DEF HandleP2PStateInfo
<1>2. udp' \in UdpType /\ udp'.obj = Peers[m] /\ udp'.write # "Pending"
  BY <1>1, UdpTestStep, Zenon DEF Capacity, CheckIDs
<1>3. UdpDecision'
  BY <1>1, <1>2, Zenon DEF UdpDecision, IInv, PeersAllocated, TypeOK
<1>4. answered' \subseteq Macs \X Socks
  <2>1. heap[Peers[m]].info.sock \in Socks
    BY <1>1, Zenon DEF IInv, PeersAllocated, Peer, Socks
  <2> QED
    BY <1>1, <2>1 DEF IInv, TypeOK
<1>5. TypeOK'
  BY <1>1, <1>2, <1>4, Zenon DEF IInv, TypeOK, UdpType
<1>6. Reached(heap[udp.obj].mac)'
  <2>1. heap[Peers[m]].mac = m /\ heap[Peers[m]].info.sock \in Socks
    BY <1>1, Zenon DEF IInv, PeersAllocated, Peer, Socks
  <2>2. <<m, heap[Peers[m]].info.sock>> \in answered'
    BY <1>1, Zenon
  <2> QED
    BY <1>1, <1>2, <2>1, <2>2, Zenon DEF Reached
<1> QED
  BY <1>1, <1>3, <1>5, <1>6, OtherStep, Zenon

\* A step that rewrites fields of one allocated object, and neither its MAC
\* address nor its PubSocket, keeps the two maps in order.
LEMMA FieldsKeepMaps ==
    ASSUME IInv, NEW o \in Objs, heap[o] \in Peer, NEW p \in Peer,
           p.mac = heap[o].mac, p.info = heap[o].info,
           heap' = [heap EXCEPT ![o] = p], UNCHANGED <<Peers, peerBySocket>>
    PROVE  /\ heap' \in [Objs -> Peer \cup {Free}]
           /\ heap'[o] = p
           /\ \A x \in Objs : x # o => heap'[x] = heap[x]
           /\ PeersAllocated'
           /\ BySocketSound'
<1> USE PeerRegistryAssumption
<1>1. /\ heap' \in [Objs -> Peer \cup {Free}]
      /\ heap'[o] = p
      /\ \A x \in Objs : x # o => heap'[x] = heap[x]
  BY Zenon DEF IInv, TypeOK
<1>2. PeersAllocated'
  BY <1>1 DEF IInv, TypeOK, PeersAllocated
<1>3. BySocketSound'
  BY <1>1 DEF IInv, TypeOK, BySocketSound, Live
<1> QED
  BY <1>1, <1>2, <1>3, Zenon

\* The writes of UpdateP2PStatus in handleUDP (p2p.go, UpdateP2PStatus).
LEMMA UdpWriteStep ==
    ASSUME IInv, UdpWrite
    PROVE  IInv'
<1> USE PeerRegistryAssumption
<1>1. PICK o : o = udp.obj
  BY Zenon
<1>2. o \in Objs /\ heap[o] \in Peer /\ udp.write \in Capacity \ {"Pending"}
      /\ udp.wcheck \in CheckIDs /\ udp.direct \in BOOLEAN
      /\ udp.changed \in BOOLEAN
  BY <1>1, Zenon DEF UdpWrite, IInv, TypeOK, UdpDecision
<1>3. /\ UNCHANGED <<Peers, peerBySocket, upd, pings, pongs, answered>>
      /\ udp' = UdpIdle
      /\ hasPendingChanges' \in BOOLEAN
  BY Zenon DEF UdpWrite, IInv, TypeOK
<1>4. PICK d \in BOOLEAN :
        heap' = [heap EXCEPT ![o].status = udp.write, ![o].check = udp.wcheck,
                             ![o].duplex = d]
  <2>1. heap[o].duplex \in BOOLEAN
    BY <1>2, Zenon DEF Peer
  <2> QED
    BY <1>1, <1>2, <2>1, Zenon DEF UdpWrite
<1>5. PICK p : p = [heap[o] EXCEPT !.status = udp.write, !.check = udp.wcheck,
                                   !.duplex = d]
  BY Zenon
<1>6. p \in Peer /\ p.mac = heap[o].mac /\ p.info = heap[o].info
      /\ p.ttl = heap[o].ttl /\ p.status = udp.write
  BY <1>2, <1>5, Zenon DEF Peer
<1>7. heap' = [heap EXCEPT ![o] = p]
  BY <1>2, <1>4, <1>5, Zenon DEF IInv, TypeOK
<1>8. /\ heap' \in [Objs -> Peer \cup {Free}]
      /\ heap'[o] = p
      /\ \A x \in Objs : x # o => heap'[x] = heap[x]
      /\ PeersAllocated'
      /\ BySocketSound'
  BY <1>2, <1>3, <1>6, <1>7, FieldsKeepMaps, Zenon
<1>9. TypeOK'
  BY <1>3, <1>8, UdpIdleType DEF IInv, TypeOK, UdpType
<1>10. UpdAllocated'
  BY <1>3, <1>6, <1>8, Zenon DEF IInv, TypeOK, UpdAllocated
<1>11. UpdDecision'
  BY <1>3, <1>6, <1>8, Zenon DEF IInv, UpdDecision, UpdAllocated
<1>12. UdpDecision'
  BY <1>3, UdpIdleType, Zenon DEF UdpDecision
<1>13. PendingHasTTL'
  BY <1>2, <1>3, <1>6, <1>8, Zenon DEF IInv, PendingHasTTL
<1>14. ReachedFirst'
  <2>1. \A x \in Objs : heap[x] \in Peer => heap'[x].mac = heap[x].mac
    BY <1>6, <1>8, Zenon
  <2>2. udp.write = "Available" => Reached(heap[o].mac)
    BY <1>1, Zenon DEF UdpWrite, IInv, ReachedFirst
  <2>3. \A x \in Objs : heap'[x] # Free /\ heap'[x].status = "Available" =>
          Reached(heap'[x].mac)
    BY <1>6, <1>8, <2>2, Zenon DEF IInv, ReachedFirst
  <2>4. \A x \in upd.todo : heap'[x].mac = heap[x].mac
    BY <2>1, Zenon DEF IInv, TypeOK, UpdAllocated
  <2>5. upd.pc = "write" => heap'[upd.obj].mac = heap[upd.obj].mac
    BY <2>1, Zenon DEF IInv, UpdAllocated
  <2> QED
    BY <1>3, <2>3, <2>4, <2>5, UdpIdleType, Zenon DEF IInv, ReachedFirst, Reached
<1> QED
  BY <1>8, <1>9, <1>10, <1>11, <1>12, <1>13, <1>14, Zenon DEF IInv

\* The steps of handleP2PUpdates (routines.go, UpdatePeersP2PStates, PingPeer).
LEMMA CollectPeersStep ==
    ASSUME IInv, CollectPeers
    PROVE  IInv'
<1> USE PeerRegistryAssumption
<1>1. PICK found, gone :
        /\ found = {o \in Objs : Live(o) /\ heap[o].status = upd.phase}
        /\ gone \subseteq found
        /\ upd' = UpdIdle(upd.phase, found \ gone, "next")
        /\ heap' = [o \in Objs |->
                      IF o \in gone
                      THEN [heap[o] EXCEPT !.status = "Unavailable",
                                           !.check = NoCheck]
                      ELSE heap[o]]
  BY ZenonT(60) DEF CollectPeers
<1>2. UNCHANGED <<Peers, peerBySocket, hasPendingChanges, udp, pings,
                  pongs, answered>> /\ upd.pc = "collect"
  BY ZenonT(60) DEF CollectPeers
<1>3. \A o \in found : o \in Objs /\ heap[o] \in Peer
  BY <1>1, ZenonT(60) DEF Live, IInv, TypeOK
<1>4. \A o \in Objs : heap[o] \in Peer =>
        /\ heap'[o] \in Peer
        /\ heap'[o].mac = heap[o].mac
        /\ heap'[o].info = heap[o].info
        /\ heap'[o].ttl = heap[o].ttl
        /\ heap'[o].status \in {heap[o].status, "Unavailable"}
  BY <1>1, <1>3, ZenonT(60) DEF Peer, Capacity, CheckIDs
<1>5. \A o \in Objs : heap[o] \notin Peer => heap'[o] = Free /\ heap[o] = Free
  BY <1>1, <1>3, ZenonT(60) DEF IInv, TypeOK
<1>6. heap' \in [Objs -> Peer \cup {Free}]
  BY <1>1, <1>4, <1>5, Zenon DEF IInv, TypeOK
<1>7. /\ upd' \in UpdType
      /\ upd'.pc = "next" /\ upd'.todo = found \ gone /\ upd'.obj = NoPeer
      /\ upd'.phase = upd.phase
  <2>1. upd.phase \in {"Unknown", "Pending", "Available"}
    BY Zenon DEF IInv, TypeOK
  <2>2. PICK todo : todo = found \ gone
    BY Zenon
  <2>3. todo \in SUBSET Objs
    BY <1>3, <2>2, Zenon
  <2>4. upd' = UpdIdle(upd.phase, todo, "next")
    BY <1>1, <2>2, Zenon
  <2>5. /\ upd' \in UpdType /\ upd'.pc = "next" /\ upd'.todo = todo /\ upd'.obj = NoPeer
        /\ upd'.phase = upd.phase
    BY <2>1, <2>3, <2>4, UpdIdleType
  <2> QED
    BY <2>2, <2>5, Zenon
<1>8. TypeOK'
  BY <1>2, <1>6, <1>7, Zenon DEF IInv, TypeOK, UpdType
<1>9. PeersAllocated'
  BY <1>2, <1>4 DEF IInv, TypeOK, PeersAllocated
<1>10. UpdAllocated'
  BY <1>3, <1>4, <1>7, Zenon DEF UpdAllocated
<1>11. UpdDecision'
  BY <1>7, Zenon DEF UpdDecision
<1>12. UdpDecision'
  BY <1>2, <1>4, Zenon DEF IInv, UdpDecision
<1>13. PendingHasTTL'
  BY <1>2, <1>4, <1>5, Zenon DEF IInv, PendingHasTTL
<1>14. BySocketSound'
  BY <1>2, <1>4, <1>5 DEF IInv, TypeOK, BySocketSound, Live
<1>15. ReachedFirst'
  <2>1. ASSUME NEW o \in Objs, heap'[o] # Free, heap'[o].status = "Available"
        PROVE  Reached(heap'[o].mac)
    <3>1. heap[o] \in Peer /\ heap[o].status = "Available" /\ heap'[o].mac = heap[o].mac
      BY <1>4, <1>5, <2>1, Zenon
    <3>2. Reached(heap[o].mac)
      BY <3>1, Zenon DEF IInv, ReachedFirst
    <3> QED
      BY <3>1, <3>2, Zenon
  <2>2. ASSUME NEW o \in found, upd.phase = "Available"
        PROVE  Reached(heap'[o].mac)
    <3>1. o \in Objs /\ heap[o] # Free /\ heap[o].status = "Available"
      BY <1>1, <1>3, <2>2, Zenon DEF Live
    <3>2. Reached(heap[o].mac) /\ heap'[o].mac = heap[o].mac
      BY <1>3, <1>4, <3>1, Zenon DEF IInv, ReachedFirst
    <3> QED
      BY <3>2, Zenon
  <2>3. udp.pc \in {"pong", "info"} => heap'[udp.obj].mac = heap[udp.obj].mac
    BY <1>4, Zenon DEF IInv, UdpDecision
  <2> QED
    BY <1>2, <1>7, <2>1, <2>2, <2>3, Zenon DEF IInv, ReachedFirst, Reached
<1> QED
  BY <1>8, <1>9, <1>10, <1>11, <1>12, <1>13, <1>14, <1>15, Zenon DEF IInv

\* PingPeer decides on the pendingTTL of the object (routines.go, PingPeer).
LEMMA PingTestStep ==
    ASSUME IInv, NEW o \in upd.todo, PingTest(o)
    PROVE  IInv'
<1> USE PeerRegistryAssumption
<1>1. PICK status, check :
        /\ status = PingStatus(upd.phase)
        /\ check = <<heap[o].mac, heap[o].info.sock>>
  BY Zenon
<1>2. /\ upd.pc = "next"
      /\ heap' = [heap EXCEPT ![o].ttl = NextTTL(heap[o], status)]
      /\ upd' = [upd EXCEPT !.pc = "write", !.obj = o, !.todo = upd.todo \ {o},
                            !.check = check,
                            !.write = WrittenStatus(heap[o], status),
                            !.wcheck = WrittenCheck(heap[o], status, check),
                            !.changed = (heap[o].status # status)]
      /\ UNCHANGED <<Peers, peerBySocket, hasPendingChanges, udp, pings,
                     pongs, answered>>
  BY <1>1, Zenon DEF PingTest
<1>3. o \in Objs /\ heap[o] \in Peer
  BY Zenon DEF IInv, TypeOK, UpdAllocated
<1>4. status \in Capacity /\ check \in CheckIDs
  BY <1>1, <1>3, Zenon DEF PingStatus, Capacity, CheckIDs, Peer, Socks
<1>5. heap[o].status = "Pending" => heap[o].ttl >= 1
  BY <1>2, <1>3, Zenon DEF IInv, PendingHasTTL
<1>6. PICK ttl, write, wcheck :
        /\ ttl = NextTTL(heap[o], status)
        /\ write = WrittenStatus(heap[o], status)
        /\ wcheck = WrittenCheck(heap[o], status, check)
  BY Zenon
<1>7. /\ ttl \in 0..MaxTTL /\ write \in Capacity /\ wcheck \in CheckIDs
      /\ ttl < 1 => write = "Unavailable"
      /\ write \in {status, "Unavailable"}
  BY <1>3, <1>4, <1>5, <1>6, DecisionFacts, Zenon
<1>8. PICK p : p = [heap[o] EXCEPT !.ttl = ttl]
  BY Zenon
<1>9. p \in Peer /\ p.mac = heap[o].mac /\ p.info = heap[o].info
      /\ p.status = heap[o].status /\ p.ttl = ttl
  BY <1>3, <1>7, <1>8, Zenon DEF Peer
<1>10. heap' = [heap EXCEPT ![o] = p]
  BY <1>2, <1>3, <1>6, <1>8, Zenon DEF IInv, TypeOK
<1>11. /\ heap' \in [Objs -> Peer \cup {Free}]
       /\ heap'[o] = p
       /\ \A x \in Objs : x # o => heap'[x] = heap[x]
       /\ PeersAllocated'
       /\ BySocketSound'
  BY <1>2, <1>3, <1>9, <1>10, FieldsKeepMaps, Zenon
<1>12. /\ upd' \in UpdType
       /\ upd'.pc = "write" /\ upd'.obj = o /\ upd'.todo = upd.todo \ {o}
       /\ upd'.write = write /\ upd'.phase = upd.phase
  BY <1>2, <1>3, <1>4, <1>6, <1>7, Zenon DEF IInv, TypeOK, UpdType
<1>13. TypeOK'
  BY <1>2, <1>11, <1>12, Zenon DEF IInv, TypeOK, UpdType
<1>14. UpdAllocated'
  BY <1>3, <1>9, <1>11, <1>12, Zenon DEF IInv, TypeOK, UpdAllocated
<1>15. UpdDecision'
  BY <1>7, <1>9, <1>11, <1>12, Zenon DEF UpdDecision
<1>16. UdpDecision'
  BY <1>2, <1>9, <1>11 DEF IInv, UdpDecision
<1>17. PendingHasTTL'
  <2> SUFFICES ASSUME NEW x \in Objs, heap'[x] # Free, heap'[x].status = "Pending",
                      ~(x = o /\ write = "Unavailable")
               PROVE  heap'[x].ttl >= 1
    BY <1>12, Zenon DEF PendingHasTTL
  <2>1. CASE x = o
    BY <2>1, <1>7, <1>9, <1>11
  <2>2. CASE x # o
    BY <2>2, <1>2, <1>11, Zenon DEF IInv, PendingHasTTL
  <2> QED
    BY <2>1, <2>2, Zenon
<1>18. ReachedFirst'
  <2>1. \A x \in Objs : /\ heap'[x] # Free => heap[x] # Free
                        /\ heap'[x].mac = heap[x].mac /\ heap'[x].status = heap[x].status
    BY <1>3, <1>9, <1>11, Zenon
  <2>2. \A x \in upd.todo : x \in Objs
    BY Zenon DEF IInv, TypeOK
  <2>3. write = "Available" => Reached(heap[o].mac)
    BY <1>1, <1>7, Zenon DEF PingStatus, IInv, ReachedFirst
  <2>4. udp.pc \in {"pong", "info"} => udp.obj \in Objs
    BY Zenon DEF IInv, UdpDecision
  <2>5. \A m : Reached(m)' <=> Reached(m)
    BY <1>2, Zenon DEF Reached
  <2>6. \A x \in Objs : heap'[x] # Free /\ heap'[x].status = "Available" =>
          Reached(heap'[x].mac)
    BY <2>1, Zenon DEF IInv, ReachedFirst
  <2>7. upd.phase = "Available" => \A x \in upd.todo : Reached(heap'[x].mac)
    BY <2>1, <2>2, Zenon DEF IInv, ReachedFirst
  <2>8. udp.pc \in {"pong", "info"} /\ udp.write = "Available" => Reached(heap'[udp.obj].mac)
    BY <2>1, <2>4, Zenon DEF IInv, ReachedFirst
  <2>9. write = "Available" => Reached(heap'[o].mac)
    BY <1>3, <2>1, <2>3, Zenon
  <2>10. \A pong \in pongs : Reached(pong.mac)
    BY Zenon DEF IInv, ReachedFirst
  <2> QED
    BY <1>2, <1>12, <2>5, <2>6, <2>7, <2>8, <2>9, <2>10, Zenon DEF ReachedFirst
<1> QED
  BY <1>11, <1>13, <1>14, <1>15, <1>16, <1>17, <1>18, Zenon DEF IInv

\* PingPeer writes what it decided (p2p.go, UpdateP2PStatus).
LEMMA PingWriteStep ==
    ASSUME IInv, PingWrite
    PROVE  IInv'
<1> USE PeerRegistryAssumption
<1>1. PICK o : o = upd.obj
  OBVIOUS
<1>2. /\ upd.pc = "write"
      /\ heap' = [heap EXCEPT ![o].status = upd.write, ![o].check = upd.wcheck]
      /\ hasPendingChanges' \in BOOLEAN
      /\ upd' = [upd EXCEPT !.pc = "send"]
      /\ UNCHANGED <<Peers, peerBySocket, udp, pings, pongs, answered>>
  BY <1>1, Zenon DEF PingWrite, IInv, TypeOK
<1>3. o \in Objs /\ heap[o] \in Peer /\ upd.write \in Capacity
      /\ upd.wcheck \in CheckIDs
  BY <1>1, <1>2, Zenon DEF IInv, TypeOK, UpdAllocated
<1>4. PICK p : p = [heap[o] EXCEPT !.status = upd.write, !.check = upd.wcheck]
  BY Zenon
<1>5. p \in Peer /\ p.mac = heap[o].mac /\ p.info = heap[o].info
      /\ p.status = upd.write /\ p.ttl = heap[o].ttl /\ p.ttl \in 0..MaxTTL
  BY <1>3, <1>4, Zenon DEF Peer
<1>6. heap' = [heap EXCEPT ![o] = p]
  BY <1>2, <1>3, <1>4, Zenon DEF IInv, TypeOK
<1>7. /\ heap' \in [Objs -> Peer \cup {Free}]
      /\ heap'[o] = p
      /\ \A x \in Objs : x # o => heap'[x] = heap[x]
      /\ PeersAllocated'
      /\ BySocketSound'
  BY <1>2, <1>3, <1>5, <1>6, FieldsKeepMaps, Zenon
<1>8. /\ upd' \in UpdType
      /\ upd'.pc = "send" /\ upd'.obj = o /\ upd'.todo = upd.todo
      /\ upd'.phase = upd.phase
  BY <1>1, <1>2, Zenon DEF IInv, TypeOK, UpdType
<1>9. TypeOK'
  BY <1>2, <1>7, <1>8, Zenon DEF IInv, TypeOK, UpdType
<1>10. UpdAllocated'
  <2>1. upd.todo \subseteq Objs /\ o \notin upd.todo /\ \A x \in upd.todo : heap[x] \in Peer
    BY <1>1, Zenon DEF IInv, TypeOK, UpdAllocated
  <2>2. \A x \in upd.todo : heap'[x] \in Peer
    BY <1>7, <2>1, Zenon
  <2> QED
    BY <1>3, <1>5, <1>7, <1>8, <2>1, <2>2, Zenon DEF UpdAllocated
<1>11. UpdDecision'
  BY <1>8, Zenon DEF UpdDecision
<1>12. UdpDecision'
  BY <1>2, <1>5, <1>7 DEF IInv, UdpDecision
<1>13. PendingHasTTL'
  <2> SUFFICES ASSUME NEW x \in Objs, heap'[x] # Free, heap'[x].status = "Pending"
               PROVE  heap'[x].ttl >= 1
    BY Zenon DEF PendingHasTTL
  <2>1. CASE x = o
    BY <2>1, <1>1, <1>2, <1>5, <1>7 DEF IInv, UpdDecision
  <2>2. CASE x # o
    BY <2>2, <1>1, <1>7, Zenon DEF IInv, PendingHasTTL
  <2> QED
    BY <2>1, <2>2, Zenon
<1>14. ReachedFirst'
  <2>1. \A x \in Objs : heap'[x].mac = heap[x].mac
    BY <1>5, <1>7, Zenon
  <2>2. upd.write = "Available" => Reached(heap[o].mac)
    BY <1>1, <1>2, Zenon DEF IInv, ReachedFirst
  <2>3. \A x \in Objs : heap'[x] # Free /\ heap'[x].status = "Available" =>
          Reached(heap[x].mac)
    BY <1>5, <1>7, <2>2, Zenon DEF IInv, ReachedFirst
  <2>4. /\ \A x \in upd.todo : x \in Objs
        /\ udp.pc \in {"pong", "info"} => udp.obj \in Objs
    BY Zenon DEF IInv, TypeOK, UdpDecision
  <2>5. \A m : Reached(m)' <=> Reached(m)
    BY <1>2, Zenon DEF Reached
  <2>6. upd.phase = "Available" => \A x \in upd.todo : Reached(heap'[x].mac)
    BY <2>1, <2>4, Zenon DEF IInv, ReachedFirst
  <2>7. udp.pc \in {"pong", "info"} /\ udp.write = "Available" => Reached(heap'[udp.obj].mac)
    BY <2>1, <2>4, Zenon DEF IInv, ReachedFirst
  <2>8. \A pong \in pongs : Reached(pong.mac)
    BY Zenon DEF IInv, ReachedFirst
  <2> QED
    BY <1>2, <1>8, <2>1, <2>3, <2>5, <2>6, <2>7, <2>8, Zenon DEF ReachedFirst
<1> QED
  BY <1>7, <1>9, <1>10, <1>11, <1>12, <1>13, <1>14, Zenon DEF IInv

\* A ping that is not the last one changes no object (routines.go, PingPeer).
LEMMA PingSendStep ==
    ASSUME IInv, upd.pc = "send", SendPing
    PROVE  pings' \subseteq [mac: Macs, sock: Socks, check: CheckIDs]
<1> USE PeerRegistryAssumption
<1>1. PICK m, s : m = heap[upd.obj].mac /\ s = UDPAddrWithStrategy(m, "EnforceP2P")
  BY Zenon
<1>2. pings' = pings \/ (s # NoPeer /\ pings' =
          pings \cup {[mac |-> m, sock |-> s, check |-> upd.check]})
  BY <1>1, Zenon DEF SendPing
<1>3. m \in Macs
  BY <1>1, Zenon DEF IInv, UpdAllocated, Peer
<1>4. s # NoPeer => s \in Socks
  <2> SUFFICES ASSUME s # NoPeer PROVE s \in Socks
    BY SMTT(30)
  <2>1. Peers[m] # NoPeer /\ s = heap[Peers[m]].info.sock
    BY <1>1, Zenon DEF UDPAddrWithStrategy
  <2>2. heap[Peers[m]] \in Peer
    BY <1>3, <2>1, Zenon DEF IInv, PeersAllocated
  <2> QED
    BY <2>1, <2>2, Zenon DEF Peer, Socks
<1>5. upd.check \in CheckIDs /\ pings \subseteq [mac: Macs, sock: Socks, check: CheckIDs]
  BY Zenon DEF IInv, TypeOK
<1> QED
  BY <1>2, <1>3, <1>4, <1>5

\* After its last ping an object may become garbage (routines.go, PingPeer).
LEMMA PingSendLastStep ==
    ASSUME IInv, PingSendLast
    PROVE  IInv'
<1> USE PeerRegistryAssumption
<1>1. PICK o : o = upd.obj
  OBVIOUS
<1>2. /\ upd.pc = "send"
      /\ SendPing
      /\ upd' = UpdIdle(upd.phase, upd.todo, "next")
      /\ heap' = [heap EXCEPT ![o] = IF Live(o) THEN heap[o] ELSE Free]
      /\ UNCHANGED <<Peers, peerBySocket, hasPendingChanges, udp, pongs,
                     answered>>
  BY <1>1, Zenon DEF PingSendLast
<1>3. o \in Objs /\ heap[o] \in Peer
  BY <1>1, <1>2, Zenon DEF IInv, UpdAllocated
<1>4. /\ heap' \in [Objs -> Peer \cup {Free}]
      /\ \A x \in Objs : heap'[x] # Free => heap'[x] = heap[x]
      /\ \A x \in Objs : Live(x) \/ x # o => heap'[x] = heap[x]
  BY <1>2, <1>3, Zenon DEF IInv, TypeOK
<1>5. /\ upd' \in UpdType
      /\ upd'.pc = "next" /\ upd'.todo = upd.todo /\ upd'.obj = NoPeer
      /\ upd'.phase = upd.phase
  <2>1. upd.phase \in {"Unknown", "Pending", "Available"} /\ upd.todo \in SUBSET Objs
    BY Zenon DEF IInv, TypeOK
  <2> QED
    BY <1>2, <2>1, UpdIdleType
<1>6. pings' \subseteq [mac: Macs, sock: Socks, check: CheckIDs]
  BY <1>2, PingSendStep, Zenon
<1>7. TypeOK'
  BY <1>2, <1>4, <1>5, <1>6, Zenon DEF IInv, TypeOK, UpdType
<1>8. PeersAllocated'
  <2> SUFFICES ASSUME NEW m \in Macs, Peers[m] # NoPeer
               PROVE  heap'[Peers[m]] \in Peer /\ heap'[Peers[m]].mac = m
    BY <1>2, Zenon DEF PeersAllocated
  <2>1. Peers[m] \in Objs /\ heap[Peers[m]] \in Peer /\ heap[Peers[m]].mac = m
    BY Zenon DEF IInv, TypeOK, PeersAllocated
  <2>2. Live(Peers[m])
    BY <2>1, Zenon DEF Live
  <2> QED
    BY <1>4, <2>1, <2>2, Zenon
<1>9. UpdAllocated'
  <2>1. upd.todo \subseteq Objs /\ o \notin upd.todo /\ \A x \in upd.todo : heap[x] \in Peer
    BY <1>1 DEF IInv, TypeOK, UpdAllocated
  <2>2. \A x \in upd.todo : heap'[x] \in Peer
    BY <1>4, <2>1, Zenon
  <2> QED
    BY <1>5, <2>1, <2>2, Zenon DEF UpdAllocated
<1>10. UpdDecision'
  BY <1>5, Zenon DEF UpdDecision
<1>11. UdpDecision'
  BY <1>2, <1>4, Zenon DEF IInv, UdpDecision, Live
<1>12. PendingHasTTL'
  BY <1>2, <1>4, Zenon DEF IInv, PendingHasTTL
<1>13. BySocketSound'
  BY <1>2, <1>4 DEF IInv, TypeOK, BySocketSound, Live
<1>14. ReachedFirst'
  <2>1. \A x \in Objs : heap'[x] # Free /\ heap'[x].status = "Available" =>
          Reached(heap'[x].mac)
    BY <1>4, Zenon DEF IInv, ReachedFirst
  <2>2. \A x \in upd.todo : heap'[x] = heap[x]
    BY <1>1, <1>4, Zenon DEF IInv, TypeOK, UpdAllocated
  <2>3. udp.pc \in {"pong", "info"} => heap'[udp.obj] = heap[udp.obj]
    BY <1>4, Zenon DEF IInv, UdpDecision, Live
  <2>4. \A m : Reached(m)' <=> Reached(m)
    BY <1>2, Zenon DEF Reached
  <2>5. upd.phase = "Available" => \A x \in upd.todo : Reached(heap'[x].mac)
    BY <2>2, Zenon DEF IInv, ReachedFirst
  <2>6. udp.pc \in {"pong", "info"} /\ udp.write = "Available" => Reached(heap'[udp.obj].mac)
    BY <2>3, Zenon DEF IInv, ReachedFirst
  <2>7. \A pong \in pongs : Reached(pong.mac)
    BY DEF IInv, ReachedFirst
  <2> QED
    BY <1>2, <1>5, <2>1, <2>4, <2>5, <2>6, <2>7, Zenon DEF ReachedFirst
<1> QED
  BY <1>7, <1>8, <1>9, <1>10, <1>11, <1>12, <1>13, <1>14, Zenon DEF IInv

-----------------------------------------------------------------------------
(* The steps put together *)

\* Events of the supernode (p2p.go, HandlePeerInfoList).
LEMMA HandleEventStep ==
    ASSUME IInv, HandleEvent
    PROVE  IInv'
<1>1. ASSUME NEW m \in Macs, NEW i \in Infos, HandleRegisterEvent(m, i)
      PROVE  IInv'
  <2>1. RegistryKept
    BY <1>1, AddPeerKeeps, Zenon DEF HandleRegisterEvent
  <2> QED
    BY <1>1, <2>1, EventStep, Zenon DEF HandleRegisterEvent, IInv, TypeOK, UdpType
<1>2. ASSUME NEW m \in Macs, HandleUnregisterEvent(m)
      PROVE  IInv'
  <2>1. RegistryKept
    BY <1>2, RemovePeerKeeps, Zenon DEF HandleUnregisterEvent
  <2> QED
    BY <1>2, <2>1, EventStep, Zenon DEF HandleUnregisterEvent, IInv, TypeOK, UdpType
<1>3. ASSUME NEW keep \in SUBSET Macs, NEW list \in [keep -> Infos],
             HandleList(keep, list)
      PROVE  IInv'
  <2>1. udp' \in UdpType /\ udp'.pc = "list"
    <3>1. {<<m, list[m]>> : m \in keep} \subseteq Macs \X Infos
      OBVIOUS
    <3> QED
      BY <1>3, <3>1, UdpIdleType, Zenon DEF HandleList, UdpType
  <2>2. UNCHANGED <<Peers, peerBySocket, heap, hasPendingChanges, upd,
                    pings, pongs, answered>>
    BY <1>3, Zenon DEF HandleList
  <2>3. TypeOK' /\ UdpDecision'
    BY <2>1, <2>2, Zenon DEF IInv, TypeOK, UdpType, UdpDecision
  <2> QED
    BY <2>1, <2>2, <2>3, OtherStep, Zenon
<1> QED
  BY <1>1, <1>2, <1>3, Zenon DEF HandleEvent

\* handleUDP finishes a message (p2p.go, HandlePeerInfoList; handlers.go).
LEMMA UdpContinueStep ==
    ASSUME IInv, UdpContinue
    PROVE  IInv'
<1>1. ASSUME NEW a \in udp.adds, ListAdd(a)
      PROVE  IInv'
  <2>1. a[1] \in Macs /\ a[2] \in Infos
    BY Zenon DEF IInv, TypeOK
  <2>2. RegistryKept
    BY <1>1, <2>1, AddPeerKeeps, Zenon DEF ListAdd
  <2>3. udp' \in UdpType /\ udp'.pc = "list"
    BY <1>1, Zenon DEF ListAdd, IInv, TypeOK, UdpType
  <2> QED
    BY <1>1, <2>2, <2>3, EventStep, Zenon DEF ListAdd
<1>2. ASSUME NEW m \in Macs, ListRemove(m)
      PROVE  IInv'
  <2>1. RegistryKept
    BY <1>2, RemovePeerKeeps, Zenon DEF ListRemove
  <2> QED
    BY <1>2, <2>1, EventStep, Zenon DEF ListRemove, IInv, TypeOK, UdpType
<1>3. CASE ListDone
  <2>1. TypeOK' /\ UdpDecision'
    BY <1>3, UdpIdleType DEF ListDone, IInv, TypeOK, UdpType, UdpDecision
  <2> QED
    BY <1>3, <2>1, UdpIdleType, OtherStep, Zenon DEF ListDone
<1> QED
  BY <1>1, <1>2, <1>3, UdpWriteStep, Zenon DEF UdpContinue

\* A step of handleP2PUpdates (routines.go, UpdatePeersP2PStates).
LEMMA UpdateContinueStep ==
    ASSUME IInv, UpdateContinue
    PROVE  IInv'
<1>1. CASE PhaseDone
  <2>1. PICK phase : phase = NextPhase(upd.phase)
    BY Zenon
  <2>2. phase \in {"Unknown", "Pending", "Available"}
    BY <2>1, Zenon DEF NextPhase, IInv, TypeOK
  <2>3. /\ upd' \in UpdType /\ upd'.pc = "collect"
        /\ upd'.obj = NoPeer /\ upd'.todo = {}
    BY <1>1, <2>1, <2>2, UpdIdleType DEF PhaseDone
  <2>4. TypeOK' /\ UdpDecision'
    BY <1>1, <2>3, Zenon DEF PhaseDone, IInv, TypeOK, UpdType, UdpDecision
  <2> QED
    BY <1>1, <2>3, <2>4, OtherStep, Zenon DEF PhaseDone
<1> QED
  BY <1>1, CollectPeersStep, PingTestStep, PingWriteStep, PingSendLastStep, Zenon
     DEF UpdateContinue

\* Every step of every goroutine keeps the invariant.
LEMMA NextIInv == IInv /\ [Next]_vars => IInv'
<1> SUFFICES ASSUME IInv, [Next]_vars PROVE IInv'
  BY Zenon
<1>1. CASE HandleEvent
  BY <1>1, HandleEventStep, Zenon
<1>2. CASE UdpContinue
  BY <1>2, UdpContinueStep
<1>3. CASE HandlePing
  BY <1>3, HandlePongStep, HandleP2PStateInfoStep, Zenon DEF HandlePing
<1>4. CASE UpdateContinue
  BY <1>4, UpdateContinueStep
<1>5. CASE PingSend
  <2>1. pings' \subseteq [mac: Macs, sock: Socks, check: CheckIDs]
    BY <1>5, PingSendStep, Zenon DEF PingSend
  <2>2. TypeOK' /\ UdpDecision'
    BY <1>5, <2>1 DEF PingSend, IInv, TypeOK, UdpDecision
  <2> QED
    BY <1>5, <2>2, OtherStep, Zenon DEF PingSend
<1>6. ASSUME NEW ping \in pings, NEW fromSN \in BOOLEAN, RemotePong(ping, fromSN)
      PROVE  IInv'
  <2>1. ping.mac \in Macs /\ ping.sock \in Socks /\ ping.check \in CheckIDs
    BY Zenon DEF IInv, TypeOK
  <2>2. /\ pings' \subseteq [mac: Macs, sock: Socks, check: CheckIDs]
        /\ pongs' \subseteq [mac: Macs, check: CheckIDs, fromSN: BOOLEAN]
        /\ answered' \subseteq Macs \X Socks
    BY <1>6, <2>1 DEF RemotePong, IInv, TypeOK
  <2>3. TypeOK' /\ UdpDecision'
    BY <1>6, <2>2 DEF RemotePong, IInv, TypeOK, UdpDecision
  <2>4. /\ UNCHANGED <<Peers, peerBySocket, heap, upd, udp>> /\ answered \subseteq answered'
        /\ \A pong \in pongs' : pong \in pongs \/ pong.mac = ping.mac
    BY <1>6 DEF RemotePong
  <2>5. <<ping.mac, ping.sock>> \in answered'
    BY <1>6, Zenon DEF RemotePong
  <2>6. Reached(ping.mac)'
    BY <2>1, <2>5, Zenon DEF Reached
  <2>7. \A pong \in pongs' : pong \in pongs \/ Reached(pong.mac)'
    BY <2>4, <2>6, Zenon DEF Reached
  <2> QED
    BY <2>3, <2>4, <2>7, OtherStep, Zenon
<1>7. CASE SendP2PInfos
  <2>1. /\ UNCHANGED <<Peers, peerBySocket, heap, upd, udp, pings, pongs, answered>>
        /\ hasPendingChanges' = FALSE
    BY <1>7, Zenon DEF SendP2PInfos
  <2>2. TypeOK'
    BY <2>1, ZenonT(60) DEF IInv, TypeOK
  <2>3. UdpDecision'
    BY <2>1, Zenon DEF IInv, UdpDecision
  <2> QED
    BY <2>1, <2>2, <2>3, OtherStep, Zenon
<1>8. CASE UNCHANGED vars
  <2>1. TypeOK' /\ UdpDecision'
    BY <1>8 DEF vars, IInv, TypeOK, UdpDecision
  <2> QED
    BY <1>8, <2>1, OtherStep, Zenon DEF vars
<1> QED
  BY <1>1, <1>2, <1>3, <1>4, <1>5, <1>6, <1>7, <1>8, Zenon DEF Next

\* The invariant holds in every interleaving of handleUDP, handleP2PUpdates and
\* handleP2PInfos.
THEOREM Invariance == Spec => []IInv
BY InitIInv, NextIInv, PTL DEF Spec

\* Every variable keeps its type: in particular pendingTTL never goes below
\* zero, and handleP2PUpdates never works on a collected object.
THEOREM TypeCorrect == Spec => []TypeOK
<1>1. IInv => TypeOK
  BY Zenon DEF IInv
<1> QED
  BY <1>1, Invariance, PTL

\* Between two rounds of hole punching every Pending peer has attempts left,
\* whatever interleaving of the goroutines led there (p2p.go, UpdateP2PStatus;
\* the give-up branch of GetP2PendingPeers is dead code).
THEOREM PendingPeersHaveAttempts == Spec => []PendingHasTTL
<1>1. IInv => PendingHasTTL
  BY Zenon DEF IInv
<1> QED
  BY <1>1, Invariance, PTL

\* The socket index never leads to a removed peer, nor to a peer that moved
\* (p2p.go, AddPeer and RemovePeer).
THEOREM SocketIndexSound == Spec => []BySocketSound
<1>1. IInv => BySocketSound
  BY Zenon DEF IInv
<1> QED
  BY <1>1, Invariance, PTL

\* Data leaves the path over the supernode only for a peer whose edge answered
\* a ping or was reported as reachable, whatever pongs, peer-list events and
\* rounds of hole punching run at a time (wire.go, UDPAddrWithStrategy;
\* handlers.go, handlePingMessage; routines.go, UpdatePeersP2PStates).
THEOREM DirectOnlyOnceAnswered == Spec => []DirectOnceAnswered
<1>1. IInv => DirectOnceAnswered
  <2> SUFFICES ASSUME IInv, NEW m \in Macs,
                      UDPAddrWithStrategy(m, "BestEffort") # Supernode
               PROVE  \E s \in Socks : <<m, s>> \in answered
    BY Zenon DEF DirectOnceAnswered
  <2>1. Peers[m] # NoPeer /\ heap[Peers[m]].status = "Available"
    BY Zenon DEF UDPAddrWithStrategy
  <2>2. Peers[m] \in Objs /\ heap[Peers[m]] \in Peer /\ heap[Peers[m]].mac = m
    BY <2>1, Zenon DEF IInv, TypeOK, PeersAllocated
  <2>3. heap[Peers[m]] # Free
    BY <2>2, PeerRegistryAssumption, Zenon
  <2> QED
    BY <2>1, <2>2, <2>3, Zenon DEF IInv, ReachedFirst, Reached
<1> QED
  BY <1>1, Invariance, PTL
=============================================================================
