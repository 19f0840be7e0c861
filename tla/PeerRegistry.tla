---------------------------- MODULE PeerRegistry ----------------------------
(***************************************************************************)
(* The peer registry of one edge (pkg/p2p/p2p.go) and the hole punching    *)
(* that the edge runs on it (pkg/edge/routines.go, pkg/edge/handlers.go).  *)
(*                                                                         *)
(* Three goroutines work on the registry:                                  *)
(*   - handleUDP, which applies peer-list events, pongs and P2P state      *)
(*     messages, one message at a time (variable udp);                     *)
(*   - handleP2PUpdates, which every 3 s walks the Unknown, the Pending    *)
(*     and the Available peers and pings each of them (variable upd);      *)
(*   - handleP2PInfos, which every 2 s reports pending changes to the      *)
(*     supernode.                                                          *)
(* peerMu covers the maps only.  The fields of a Peer are read and written *)
(* without it, so UpdateP2PStatus is two steps here: the test of the old   *)
(* status and of pendingTTL, and the write of P2PCheckID and P2PStatus.    *)
(*                                                                         *)
(* A Peer is an object: handleP2PUpdates keeps pointers across other       *)
(* goroutines' steps, so a peer that was removed, or removed and added     *)
(* again, may still be written through an old pointer.  Objects live in    *)
(* heap and become Free when nothing refers to them any more.              *)
(***************************************************************************)
EXTENDS Integers, FiniteSets

CONSTANTS
    Macs,        \* MAC addresses of the other edges of the community
    Infos,       \* announced [vip, sock] pairs: VirtualIp and PubSocket
    NilSock,     \* a PubSocket that parseUDPAddr cannot parse (WSS edges)
    Objs,        \* addresses of Peer objects
    MaxTTL,      \* the value resetPendingTTL gives pendingTTL (30 in the code)
    MaxInFlight, \* pings and pongs the network holds; further ones are lost
    Relay,       \* TRUE if a relay passes TypeP2PStateInfo on to the edges
    NoPeer,      \* nil
    NoCheck,     \* the empty P2PCheckID
    Free,        \* an object that is not allocated
    Supernode    \* the supernode's socket

VARIABLES
    Peers,             \* MAC -> object or NoPeer
    peerBySocket,      \* PubSocket -> object or NoPeer
    heap,              \* object -> Peer or Free
    hasPendingChanges,
    upd,               \* handleP2PUpdates
    udp,               \* handleUDP
    pings, pongs,      \* datagrams in flight; loss is a datagram never read
    answered           \* history: <<mac, sock>> pairs that answered a ping, or
                       \* were reported as reachable

vars == <<Peers, peerBySocket, heap, hasPendingChanges, upd, udp,
          pings, pongs, answered>>

Socks == {i.sock : i \in Infos} \cup {NilSock}
Capacity == {"Unknown", "Pending", "Available", "Unavailable"}
CheckIDs == (Macs \X Socks) \cup {NoCheck}
Peer == [mac: Macs, info: Infos, status: Capacity, duplex: BOOLEAN,
         check: CheckIDs, ttl: 0..MaxTTL]

ASSUME PeerRegistryAssumption ==
    /\ MaxTTL \in Nat \ {0}
    /\ NoPeer \notin Objs
    /\ Free \notin Peer
    /\ NoCheck \notin Macs \X Socks
    /\ Supernode \notin Socks
    /\ Relay \in BOOLEAN
    /\ MaxInFlight \in Nat
    /\ \A i \in Infos : i = [vip |-> i.vip, sock |-> i.sock]

-----------------------------------------------------------------------------
(* The goroutines' local state *)

\* handleP2PUpdates: which list it walks, the peers still to ping, and the
\* PingPeer call in progress with what UpdateP2PStatus decided to write.
UpdIdle(phase, todo, pc) ==
    [phase |-> phase, pc |-> pc, todo |-> todo, obj |-> NoPeer,
     check |-> NoCheck, write |-> "Unknown", wcheck |-> NoCheck,
     changed |-> FALSE]

\* handleUDP: idle, inside UpdateP2PStatus for a pong or a P2P state message,
\* or inside HandlePeerInfoList for a TypeList event.
UdpIdle == [pc |-> "idle", obj |-> NoPeer, write |-> "Unknown",
            wcheck |-> NoCheck, changed |-> FALSE, direct |-> FALSE,
            adds |-> {}, keep |-> {}]

Live(o) == o # NoPeer /\ heap[o] # Free /\ Peers[heap[o].mac] = o
Held(o) == o \in upd.todo \cup {upd.obj}

Init ==
    /\ Peers = [m \in Macs |-> NoPeer]
    /\ peerBySocket = [s \in Socks |-> NoPeer]
    /\ heap = [o \in Objs |-> Free]
    /\ hasPendingChanges = FALSE
    /\ upd = UpdIdle("Unknown", {}, "collect")
    /\ udp = UdpIdle
    /\ pings = {}
    /\ pongs = {}
    /\ answered = {}

-----------------------------------------------------------------------------
(* Peer.UpdateP2PStatus: what pendingTTL becomes, and what is written *)

\* Mutant of NextTTL: no call uses up an attempt.
NextTTLNeverDecrements(p, status) ==
    IF p.status = "Unknown" /\ status = "Pending" THEN MaxTTL ELSE p.ttl

NextTTL(p, status) ==
    IF p.status = status
    THEN IF status = "Pending" THEN p.ttl - 1 ELSE p.ttl
    ELSE IF p.status = "Unknown" /\ status = "Pending" THEN MaxTTL ELSE p.ttl

\* Mutant of WrittenStatus: the test of pendingTTL is off by one.
WrittenStatusOffByOne(p, status) ==
    IF NextTTL(p, status) < 0 THEN "Unavailable" ELSE status

WrittenStatus(p, status) ==
    IF NextTTL(p, status) < 1 THEN "Unavailable" ELSE status

WrittenCheck(p, status, check) ==
    IF NextTTL(p, status) < 1 THEN NoCheck ELSE check

-----------------------------------------------------------------------------
(* PeerRegistry.AddPeer (always called with overwrite) and RemovePeer *)

NewPeer(m, i) ==
    [mac |-> m, info |-> i, status |-> "Unknown", duplex |-> FALSE,
     check |-> NoCheck, ttl |-> 0]

\* A difference in VirtualIp or PubSocket resets P2PStatus and P2PCheckID,
\* and neither pendingTTL nor IsFullDuplex.
UpdatedPeer(p, i) ==
    [p EXCEPT !.info = i,
              !.status = IF p.info # i THEN "Unknown" ELSE @,
              !.check  = IF p.info # i THEN NoCheck ELSE @]

AddPeer(m, i) ==
    /\ \/ /\ Peers[m] # NoPeer
          /\ LET o == Peers[m] IN
             /\ heap' = [heap EXCEPT ![o] = UpdatedPeer(@, i)]
             /\ peerBySocket' = [peerBySocket EXCEPT ![heap[o].info.sock] = NoPeer,
                                                     ![i.sock] = o]
          /\ UNCHANGED Peers
       \/ /\ Peers[m] = NoPeer
          /\ \E o \in Objs :
             /\ heap[o] = Free
             /\ heap' = [heap EXCEPT ![o] = NewPeer(m, i)]
             /\ Peers' = [Peers EXCEPT ![m] = o]
             /\ peerBySocket' = [peerBySocket EXCEPT ![i.sock] = o]
    /\ hasPendingChanges' = TRUE

\* Mutant of RemovePeer: the entry of peerBySocket is left behind.
RemovePeerKeepsSocket(m) ==
    \/ /\ Peers[m] = NoPeer
       /\ UNCHANGED <<Peers, peerBySocket, heap, hasPendingChanges>>
    \/ /\ Peers[m] # NoPeer
       /\ heap' = [heap EXCEPT ![Peers[m]] = IF Held(Peers[m]) THEN @ ELSE Free]
       /\ Peers' = [Peers EXCEPT ![m] = NoPeer]
       /\ hasPendingChanges' = TRUE
       /\ UNCHANGED peerBySocket

\* Removing an unknown peer is silently ignored.  The object stays allocated
\* while handleP2PUpdates holds a pointer to it.
RemovePeer(m) ==
    \/ /\ Peers[m] = NoPeer
       /\ UNCHANGED <<Peers, peerBySocket, heap, hasPendingChanges>>
    \/ /\ Peers[m] # NoPeer
       /\ LET o == Peers[m] IN
          /\ heap' = [heap EXCEPT ![o] = IF Held(o) THEN @ ELSE Free]
          /\ peerBySocket' = [peerBySocket EXCEPT ![heap[o].info.sock] = NoPeer]
       /\ Peers' = [Peers EXCEPT ![m] = NoPeer]
       /\ hasPendingChanges' = TRUE

-----------------------------------------------------------------------------
(* handleUDP: peer-list events of the supernode *)

HandleRegisterEvent(m, i) ==
    /\ udp.pc = "idle"
    /\ AddPeer(m, i)
    /\ UNCHANGED <<upd, udp, pings, pongs, answered>>

\* A TypeUnregister event, or an UnregisterRequest of another edge.
HandleUnregisterEvent(m) ==
    /\ udp.pc = "idle"
    /\ RemovePeer(m)
    /\ UNCHANGED <<upd, udp, pings, pongs, answered>>

\* A TypeList event takes peerMu once per peer: first every listed peer is
\* added, then every peer that is not listed is removed.
HandleList(keep, list) ==
    /\ udp.pc = "idle"
    /\ udp' = [UdpIdle EXCEPT !.pc = "list", !.keep = keep,
                              !.adds = {<<m, list[m]>> : m \in keep}]
    /\ UNCHANGED <<Peers, peerBySocket, heap, hasPendingChanges, upd,
                   pings, pongs, answered>>

ListAdd(a) ==
    /\ udp.pc = "list"
    /\ a \in udp.adds
    /\ AddPeer(a[1], a[2])
    /\ udp' = [udp EXCEPT !.adds = @ \ {a}]
    /\ UNCHANGED <<upd, pings, pongs, answered>>

ListRemove(m) ==
    /\ udp.pc = "list"
    /\ udp.adds = {}
    /\ m \notin udp.keep
    /\ Peers[m] # NoPeer
    /\ RemovePeer(m)
    /\ UNCHANGED <<upd, udp, pings, pongs, answered>>

ListDone ==
    /\ udp.pc = "list"
    /\ udp.adds = {}
    /\ \A m \in Macs : Peers[m] # NoPeer => m \in udp.keep
    /\ udp' = UdpIdle
    /\ UNCHANGED <<Peers, peerBySocket, heap, hasPendingChanges, upd,
                   pings, pongs, answered>>

-----------------------------------------------------------------------------
(* handleUDP: pongs and P2P state messages *)

\* The first half of UpdateP2PStatus called by handleUDP on object o; direct
\* says whether the tail of the pong handler may set IsFullDuplex.
UdpTest(o, status, check, pc, direct) ==
    LET p == heap[o] IN
    udp' = [UdpIdle EXCEPT !.pc = pc, !.obj = o,
                           !.write = WrittenStatus(p, status),
                           !.wcheck = WrittenCheck(p, status, check),
                           !.changed = (p.status # status),
                           !.direct = direct]

\* A pong of an unknown peer is ignored.  A pong that carries the peer's last
\* check ID makes it Available, any other one makes it Unknown.
HandlePong(pong) ==
    /\ udp.pc = "idle"
    /\ pong \in pongs
    /\ pongs' = pongs \ {pong}
    /\ LET o == Peers[pong.mac] IN
       IF o = NoPeer THEN UNCHANGED udp
       ELSE IF heap[o].check = pong.check
            THEN UdpTest(o, "Available", pong.check, "pong", ~pong.fromSN)
            ELSE UdpTest(o, "Unknown", NoCheck, "pong", ~pong.fromSN)
    /\ UNCHANGED <<Peers, peerBySocket, heap, hasPendingChanges, upd,
                   pings, answered>>

\* A P2P state message relayed from, or naming, a known peer.
HandleP2PStateInfo(m) ==
    /\ Relay
    /\ udp.pc = "idle"
    /\ Peers[m] # NoPeer
    /\ UdpTest(Peers[m], "Available", NoCheck, "info", FALSE)
    /\ answered' = answered \cup {<<m, heap[Peers[m]].info.sock>>}
    /\ UNCHANGED <<Peers, peerBySocket, heap, hasPendingChanges, upd,
                   pings, pongs>>

\* The second half: the two fields are written, and the pong handler then
\* records in IsFullDuplex whether the pong of an Available peer came directly.
UdpWrite ==
    /\ udp.pc \in {"pong", "info"}
    /\ LET o == udp.obj
           setsDuplex == udp.pc = "pong" /\ udp.write = "Available"
           duplex == IF setsDuplex THEN udp.direct ELSE heap[o].duplex
       IN /\ heap' = [heap EXCEPT ![o].status = udp.write,
                                  ![o].check = udp.wcheck,
                                  ![o].duplex = duplex]
          /\ hasPendingChanges' = (hasPendingChanges \/ udp.changed
                                     \/ duplex # heap[o].duplex)
    /\ udp' = UdpIdle
    /\ UNCHANGED <<Peers, peerBySocket, upd, pings, pongs, answered>>

-----------------------------------------------------------------------------
(* UDPAddrWithStrategy of an edge on UDP, and handleP2PUpdates *)

\* NoPeer stands for the error result; NilSock for the nil *net.UDPAddr that
\* WriteToUDP refuses.
UDPAddrWithStrategy(m, strategy) ==
    IF strategy = "EnforceSupernode" THEN Supernode
    ELSE IF Peers[m] = NoPeer
         THEN IF strategy = "EnforceP2P" THEN NoPeer ELSE Supernode
    ELSE IF heap[Peers[m]].status # "Available" /\ strategy = "BestEffort"
         THEN Supernode
    ELSE heap[Peers[m]].info.sock

NextPhase(phase) == CASE phase = "Unknown"   -> "Pending"
                      [] phase = "Pending"   -> "Available"
                      [] phase = "Available" -> "Unknown"

\* Mutant of PingStatus: the Pending loop passes P2PAvailable, too.
PingStatusAvailable(phase) == IF phase = "Unknown" THEN "Pending" ELSE "Available"

\* The status PingPeer is called with in each of the three loops.
PingStatus(phase) == IF phase = "Available" THEN "Available" ELSE "Pending"

\* GetP2PUnknownPeers, GetP2PendingPeers and GetP2PAvailablePeers.  The second
\* one gives up on Pending peers whose pendingTTL is used up.
Expired(o) == Live(o) /\ heap[o].status = "Pending" /\ heap[o].ttl <= 0

CollectPeers ==
    /\ upd.pc = "collect"
    /\ LET found == {o \in Objs : Live(o) /\ heap[o].status = upd.phase}
           gone  == {o \in found : upd.phase = "Pending" /\ Expired(o)}
       IN /\ upd' = UpdIdle(upd.phase, found \ gone, "next")
          /\ heap' = [o \in Objs |->
                        IF o \in gone
                        THEN [heap[o] EXCEPT !.status = "Unavailable",
                                             !.check = NoCheck]
                        ELSE heap[o]]
    /\ UNCHANGED <<Peers, peerBySocket, hasPendingChanges, udp, pings,
                   pongs, answered>>

\* PingPeer: the check ID is built from the peer's MAC address and PubSocket,
\* then the first half of UpdateP2PStatus.
PingTest(o) ==
    /\ upd.pc = "next"
    /\ o \in upd.todo
    /\ LET p == heap[o]
           status == PingStatus(upd.phase)
           check == <<p.mac, p.info.sock>>
       IN /\ heap' = [heap EXCEPT ![o].ttl = NextTTL(p, status)]
          /\ upd' = [upd EXCEPT !.pc = "write", !.obj = o, !.todo = @ \ {o},
                                !.check = check,
                                !.write = WrittenStatus(p, status),
                                !.wcheck = WrittenCheck(p, status, check),
                                !.changed = (p.status # status)]
    /\ UNCHANGED <<Peers, peerBySocket, hasPendingChanges, udp, pings,
                   pongs, answered>>

PingWrite ==
    /\ upd.pc = "write"
    /\ heap' = [heap EXCEPT ![upd.obj].status = upd.write,
                            ![upd.obj].check = upd.wcheck]
    /\ hasPendingChanges' = (hasPendingChanges \/ upd.changed)
    /\ upd' = [upd EXCEPT !.pc = "send"]
    /\ UNCHANGED <<Peers, peerBySocket, udp, pings, pongs, answered>>

NetworkFull == Cardinality(pings) + Cardinality(pongs) >= MaxInFlight

\* The same ping is sent four times.  Each send looks the peer up again by its
\* MAC address, so it goes to the socket that is registered at that moment.
SendPing ==
    LET m == heap[upd.obj].mac
        s == UDPAddrWithStrategy(m, "EnforceP2P")
    IN pings' = IF s \in {NoPeer, NilSock} \/ NetworkFull THEN pings
                ELSE pings \cup {[mac |-> m, sock |-> s, check |-> upd.check]}

PingSend ==
    /\ upd.pc = "send"
    /\ SendPing
    /\ UNCHANGED <<Peers, peerBySocket, heap, hasPendingChanges, upd, udp,
                   pongs, answered>>

PingSendLast ==
    /\ upd.pc = "send"
    /\ SendPing
    /\ upd' = UpdIdle(upd.phase, upd.todo, "next")
    /\ heap' = [heap EXCEPT ![upd.obj] = IF Live(upd.obj) THEN @ ELSE Free]
    /\ UNCHANGED <<Peers, peerBySocket, hasPendingChanges, udp, pongs,
                   answered>>

PhaseDone ==
    /\ upd.pc = "next"
    /\ upd.todo = {}
    /\ upd' = UpdIdle(NextPhase(upd.phase), {}, "collect")
    /\ UNCHANGED <<Peers, peerBySocket, heap, hasPendingChanges, udp,
                   pings, pongs, answered>>

-----------------------------------------------------------------------------
(* The other edge, and handleP2PInfos *)

\* The edge behind the pinged socket answers with the ping's check ID, either
\* directly or through the supernode (UDPBestEffort).
RemotePong(ping, fromSN) ==
    /\ ping \in pings
    /\ pings' = pings \ {ping}
    /\ pongs' = pongs \cup {[mac |-> ping.mac, check |-> ping.check,
                             fromSN |-> fromSN]}
    /\ answered' = answered \cup {<<ping.mac, ping.sock>>}
    /\ UNCHANGED <<Peers, peerBySocket, heap, hasPendingChanges, upd, udp>>

\* sendP2PInfos, if the edge waits for no answer of the supernode, sends the
\* peers and clears the flag.  What may happen between the two, and to the
\* report, is the subject of EdgeApi.
SendP2PInfos ==
    /\ hasPendingChanges
    /\ hasPendingChanges' = FALSE
    /\ UNCHANGED <<Peers, peerBySocket, heap, upd, udp, pings, pongs, answered>>

-----------------------------------------------------------------------------
HandleEvent ==
    \/ \E m \in Macs, i \in Infos : HandleRegisterEvent(m, i)
    \/ \E m \in Macs : HandleUnregisterEvent(m)
    \/ \E keep \in SUBSET Macs : \E list \in [keep -> Infos] :
          HandleList(keep, list)

UdpContinue ==
    \/ \E a \in udp.adds : ListAdd(a)
    \/ \E m \in Macs : ListRemove(m)
    \/ ListDone
    \/ UdpWrite

HandlePing ==
    \/ \E pong \in pongs : HandlePong(pong)
    \/ \E m \in Macs : HandleP2PStateInfo(m)

UpdateContinue ==
    \/ CollectPeers
    \/ \E o \in upd.todo : PingTest(o)
    \/ PingWrite
    \/ PingSendLast
    \/ PhaseDone

Next ==
    \/ HandleEvent
    \/ UdpContinue
    \/ HandlePing
    \/ UpdateContinue
    \/ PingSend
    \/ \E ping \in pings, fromSN \in BOOLEAN : RemotePong(ping, fromSN)
    \/ SendP2PInfos

Spec == Init /\ [][Next]_vars

\* handleP2PUpdates is driven by a ticker and never blocks, and handleUDP
\* finishes the message it is working on.  Nothing is assumed of the network.
FairSpec == Spec /\ WF_vars(UpdateContinue) /\ WF_vars(UdpContinue)

-----------------------------------------------------------------------------
(* Properties *)

Status(m) == IF Peers[m] = NoPeer THEN "None" ELSE heap[Peers[m]].status

\* Every variable keeps its type, and the goroutines' pointers are allocated
\* objects: a Peer that handleP2PUpdates or handleUDP works on is never a
\* collected one (p2p.go, Peer and PeerRegistry).
TypeOK ==
    /\ Peers \in [Macs -> Objs \cup {NoPeer}]
    /\ peerBySocket \in [Socks -> Objs \cup {NoPeer}]
    /\ heap \in [Objs -> Peer \cup {Free}]
    /\ hasPendingChanges \in BOOLEAN
    /\ upd \in [phase: {"Unknown", "Pending", "Available"},
                pc: {"collect", "next", "write", "send"},
                todo: SUBSET Objs, obj: Objs \cup {NoPeer}, check: CheckIDs,
                write: Capacity, wcheck: CheckIDs, changed: BOOLEAN]
    /\ udp \in [pc: {"idle", "pong", "info", "list"}, obj: Objs \cup {NoPeer},
                write: Capacity, wcheck: CheckIDs, changed: BOOLEAN,
                direct: BOOLEAN, adds: SUBSET (Macs \X Infos),
                keep: SUBSET Macs]
    /\ pings \subseteq [mac: Macs, sock: Socks, check: CheckIDs]
    /\ pongs \subseteq [mac: Macs, check: CheckIDs, fromSN: BOOLEAN]
    /\ answered \subseteq Macs \X Socks

\* A peer that is Pending has attempts left, except while handleP2PUpdates is
\* about to make that very peer Unavailable: although handleUDP may write the
\* status between the test of pendingTTL and the write of the status, and
\* AddPeer resets the status and not pendingTTL.  So the branch of
\* GetP2PendingPeers that gives up on Pending peers without attempts is never
\* taken (p2p.go, UpdateP2PStatus and GetP2PendingPeers).
PendingHasTTL ==
    \A o \in Objs : heap[o] # Free /\ heap[o].status = "Pending" =>
        \/ heap[o].ttl >= 1
        \/ upd.pc = "write" /\ upd.obj = o /\ upd.write = "Unavailable"

\* peerBySocket never leads to a peer that was removed, or to a peer that is
\* now registered at another socket, whatever order events arrive in and even
\* when two peers are announced at the same socket (p2p.go, AddPeer and
\* RemovePeer).
BySocketSound ==
    \A s \in Socks : peerBySocket[s] # NoPeer =>
        /\ Live(peerBySocket[s])
        /\ heap[peerBySocket[s]].info.sock = s

\* Data leaves the path over the supernode only for a peer whose edge answered
\* a ping of this edge or was reported as reachable, although not always at the
\* socket that is registered now.  Neither a late pong of an earlier peer object nor
\* the Available loop of handleP2PUpdates promotes a peer that never answered
\* (wire.go, UDPAddrWithStrategy; handlers.go, handlePingMessage; routines.go,
\* UpdatePeersP2PStates).
DirectOnceAnswered ==
    \A m \in Macs :
      UDPAddrWithStrategy(m, "BestEffort") # Supernode =>
        \E s \in Socks : <<m, s>> \in answered

\* Hole punching ends: a peer does not stay Pending for ever when pongs are
\* lost, because every round of handleP2PUpdates uses up one attempt
\* (p2p.go, UpdateP2PStatus).
PunchingEnds == \A m \in Macs : (Status(m) = "Pending") ~> (Status(m) # "Pending")

\* Stale pongs are silently ignored, as the comment in handlePingMessage says
\* (handlers.go:214): a pong never makes a peer Unavailable.
StalePongIgnored ==
    [][\A o \in Objs :
         udp.pc = "pong" /\ udp.obj = o /\ udp' = UdpIdle
           => (heap'[o].status = "Unavailable" => heap[o].status = "Unavailable")]_vars

=============================================================================
