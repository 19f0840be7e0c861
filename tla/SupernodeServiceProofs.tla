----------------------- MODULE SupernodeServiceProofs -----------------------
(***************************************************************************)
(* The invariants of the supernode's receiving, relaying and stopping, for *)
(* any number of edges, sockets, connections, workers and packets.         *)
(*                                                                         *)
(* The invariant has four parts: who holds each packet buffer and which    *)
(* packet is in it; which socket keys the tables hold for an edge; what a  *)
(* handler still has to send and what was delivered; and how far the       *)
(* workers and the receive loop have come in a shutdown.                   *)
(***************************************************************************)
EXTENDS SupernodeService, FiniteSetTheorems, TLAPS

Keys == Addrs \cup Conns
ProcRecords ==
    [at : {"idle", "got", "send", "read", "delete", "ended"}, buf : Buffers \cup {0},
     msg : Packets \cup {None}, answer : Keys \cup {None}, todo : SUBSET Objs,
     fallback : BOOLEAN, as : {"raw", "event", "answer"}]

TypedIO ==
    /\ reader \in [at : {"top", "read", "queue", "ended"}, buf : Buffers \cup {0}]
    /\ packetChan \in Seq(Buffers) /\ Len(packetChan) <= Cap
    /\ pool \subseteq Buffers
    /\ proc \in [Procs -> ProcRecords]
    /\ buffer \in [Buffers -> Packets \cup {None}]

TypedClients ==
    /\ plan \in [members : UNION {[M -> Addrs] : M \in SUBSET Macs},
                 packets : SUBSET Packets, faults : SUBSET {"stall", "break", "signal"}]
    /\ received \subseteq Packets
    /\ home \in [Macs -> Addrs \cup Transports \cup {None}]
    /\ used \in [Macs -> SUBSET Keys]

TypedTables ==
    /\ edge \in [Objs -> EdgeRecords \cup {None}]
    /\ edges \in [Macs -> 0..MaxObjs]
    /\ edgesBySocket \in [Keys \cup {None} -> Macs \cup {None}]
    /\ refreshed \in [Macs -> Addrs \cup Transports \cup {None}]
    /\ registered \in [Macs -> Addrs \cup Transports \cup {None}]

TypedConns ==
    /\ conn \in [Transports -> {"new", "open", "stuck", "broken", "closed"}]
    /\ wssConnections \in [Conns -> Transports \cup {None}]
    /\ upgraded \subseteq Transports

-----------------------------------------------------------------------------
(* Buffers and packets *)

Holds(p) == proc[p].at \in {"got", "send"}
InUse == Buffers \ pool

\* A buffer that is not in the pool is held by the receive loop, is in
\* packetChan once, or is held by one goroutine that processes its packet.
Held ==
    /\ reader.at = "queue" =>
         /\ reader.buf \in InUse
         /\ \A i \in DOMAIN packetChan : packetChan[i] # reader.buf
         /\ \A p \in Procs : Holds(p) => proc[p].buf # reader.buf
    /\ \A i \in DOMAIN packetChan :
         /\ packetChan[i] \in InUse
         /\ \A j \in DOMAIN packetChan : packetChan[i] = packetChan[j] => i = j
         /\ \A p \in Procs : Holds(p) => proc[p].buf # packetChan[i]
    /\ \A p \in Procs : Holds(p) =>
         /\ proc[p].buf \in InUse
         /\ \A q \in Procs \ {p} : Holds(q) => proc[q].buf # proc[p].buf
    /\ \A b \in InUse : \/ reader.at = "queue" /\ reader.buf = b
                        \/ \E i \in DOMAIN packetChan : packetChan[i] = b
                        \/ \E p \in Procs : Holds(p) /\ proc[p].buf = b

\* The buffers in use hold the packets that were read and are not yet handled,
\* each of them once.
Contents ==
    /\ \A b \in InUse : buffer[b] \in received \ handled
    /\ \A b, c \in InUse : buffer[b] = buffer[c] => b = c
    /\ \A k \in received \ handled : \E b \in InUse : buffer[b] = k
    /\ plan.packets \cap received = {} /\ handled \subseteq received
    /\ \A p \in Procs : proc[p].at = "send" => proc[p].msg = buffer[proc[p].buf]
    /\ \A t \in Transports : Holds(t) => buffer[proc[t].buf].from = t

-----------------------------------------------------------------------------
(* Socket keys *)

\* The supernode knows an edge only by addresses and IDs that the edge used.
KnownKeys ==
    /\ \A k \in received : Key(k.from) \in used[k.src]
    /\ \A m \in Macs : home[m] # None => Key(home[m]) \in used[m]
    /\ \A o \in Objs : edge[o] # None => /\ edge[o].addr \in used[o[1]] \cup {None}
                                         /\ edge[o].wss \in used[o[1]] \cup {None}
    /\ \A m \in Macs : registered[m] # None => Key(registered[m]) \in used[m]
    /\ \A k \in Keys : edgesBySocket[k] # None => k \in used[edgesBySocket[k]]

\* A member has an object, and what the last registration or heartbeat stored.
Members ==
    \A m \in Macs : Known(m) =>
      /\ edge[Obj(m)] # None /\ registered[m] # None
      /\ refreshed[m] \in Addrs => edge[Obj(m)].addr = refreshed[m]
      /\ registered[m] \in Transports => edge[Obj(m)].wss = ConnOf[registered[m]]
      /\ Own(Key(registered[m])) => edgesBySocket[Key(registered[m])] = m

\* A working connection is in the table unless another one had its ID.
Connected ==
    /\ \A t \in Transports : conn[t] # "new" => t \in upgraded
    /\ \A t \in Transports : conn[t] = "new" => proc[t].at = "idle"
    /\ \A t \in Transports : proc[t].at = "delete" => conn[t] = "closed"
    /\ \A c \in Conns : wssConnections[c] # None => ConnOf[wssConnections[c]] = c
    /\ \A t \in Transports : conn[t] = "open" /\ OnlyConnection(t) =>
         wssConnections[ConnOf[t]] = t

-----------------------------------------------------------------------------
(* Sending *)

\* Edge r is one that packet k may go to.
MayReach(r, k, as) ==
    /\ r # k.src
    /\ Own(Key(k.from)) => CommunityOf[r] = CommunityOf[k.src]
    /\ as = "raw" /\ k.kind # "data" => r = k.dst

\* What a handler still has to send.
SendingAt(p) ==
    proc[p].at = "send" =>
      /\ proc[p].msg \in Packets
      /\ proc[p].answer # None => proc[p].answer \in used[proc[p].msg.src]
      /\ \A o \in proc[p].todo : /\ edge[o] # None /\ proc[p].as # "answer"
                                 /\ MayReach(o[1], proc[p].msg, proc[p].as)
      /\ \A o, q \in proc[p].todo : o[1] = q[1] => o = q
      /\ proc[p].fallback => proc[p].as = "raw" /\ proc[p].msg.kind = "data"

Sending == \A p \in Procs : SendingAt(p)

\* What was delivered arrived as it was sent, at a socket of the edge it was
\* for, and its handler has begun.
Delivered ==
    \A d \in delivered :
      /\ d.raw = d.pkt /\ d.to \in Macs /\ d.key \in used[d.to]
      /\ d.pkt \in Packets
      /\ d.as = "answer" => d.key \in used[d.pkt.src]
      /\ d.as # "answer" => \E r \in Macs : d.key \in used[r] /\ MayReach(r, d.pkt, d.as)
      /\ \/ d.pkt \in handled
         \/ \E p \in Procs : proc[p].at = "send" /\ proc[p].msg = d.pkt

\* A handler has sent nothing of what it still has to send.
OnceAt(p) ==
    \A d \in delivered : proc[p].at = "send" /\ d.pkt = proc[p].msg =>
      /\ proc[p].answer # None => d.as # "answer"
      /\ proc[p].fallback => d.as # proc[p].as
      /\ Own(d.key) /\ d.as = proc[p].as => \A o \in proc[p].todo : d.to # o[1]

Once ==
    /\ \A keys \in twice : ~(Own(keys[1]) /\ Own(keys[2]))
    /\ \A p \in Procs : OnceAt(p)

-----------------------------------------------------------------------------
(* Stopping *)

\* Workers end after the receive loop, with an empty channel.
Stopping ==
    /\ \A p \in Workers : proc[p].at = "ended" => reader.at = "ended" /\ packetChan = <<>>
    /\ shutdown = "complete" => \A p \in Workers : proc[p].at = "ended"

IInv ==
    /\ TypedIO /\ TypedClients /\ TypedTables /\ TypedConns
    /\ Held /\ Contents /\ KnownKeys /\ Members /\ Connected
    /\ Sending /\ Delivered /\ Once /\ Stopping

-----------------------------------------------------------------------------
(* Sockets and their keys *)

\* What a step may do to the keys and to the Edge objects: neither is forgotten.
Grow == \A m \in Macs : used[m] \subseteq used'[m]
ObjectsStay == \A o \in Objs : edge[o] # None => edge'[o] # None

\* The key of a socket.
LEMMA KeyFacts ==
    /\ \A s \in Addrs : Key(s) = s /\ Key(s) \in Keys
    /\ \A s \in Transports : Key(s) = ConnOf[s] /\ Key(s) \in Keys
    /\ Key(None) = None /\ None \notin Keys
<1>1. ASSUME NEW s \in Addrs PROVE Key(s) = s /\ Key(s) \in Keys
  <2>1. s \notin Transports
    BY ServiceAssumption, Zenon
  <2> QED
    BY <2>1, Zenon DEF Key, Keys
<1>2. ASSUME NEW s \in Transports PROVE Key(s) = ConnOf[s] /\ Key(s) \in Keys
  BY ServiceAssumption, Zenon DEF Key, Keys
<1>3. Key(None) = None /\ None \notin Keys
  BY ServiceAssumption, Zenon DEF Key, Keys
<1> QED
  BY <1>1, <1>2, <1>3, Zenon

\* A key that only one edge used.
LEMMA OwnsOne ==
    ASSUME NEW key, Own(key), NEW m \in Macs, NEW n \in Macs, key \in used[m], key \in used[n]
    PROVE  m = n
BY Zenon DEF Own

\* A key that only one edge used so far was never used by another one.
LEMMA OwnEarlier ==
    ASSUME Grow, NEW key, Own(key)'
    PROVE  Own(key)
BY Zenon DEF Grow, Own

\* An edge that a packet may go to is still one later.
LEMMA MayReachLater ==
    ASSUME Grow, NEW r, NEW k, NEW as, MayReach(r, k, as)
    PROVE  MayReach(r, k, as)'
<1>1. Own(Key(k.from))' => Own(Key(k.from))
  BY OwnEarlier, Zenon DEF Key
<1> QED
  BY <1>1, Zenon DEF MayReach, Key

\* What a goroutine has to send, when the step is another one's.
LEMMA OtherSends ==
    ASSUME Grow, ObjectsStay, NEW q \in Procs, proc'[q] = proc[q], TypedIO, SendingAt(q)
    PROVE  SendingAt(q)'
<1> SUFFICES ASSUME proc[q].at = "send" PROVE SendingAt(q)'
  BY Zenon DEF SendingAt
<1>1. proc[q].todo \subseteq Objs
  BY Zenon DEF TypedIO, ProcRecords
<1>2. proc[q].answer # None => proc[q].answer \in used'[proc[q].msg.src]
  <2>1. proc[q].msg.src \in Macs
    BY Zenon DEF SendingAt, Packets
  <2> QED
    BY <2>1, Zenon DEF SendingAt, Grow
<1> QED
  BY <1>1, <1>2, MayReachLater, Zenon DEF SendingAt, ObjectsStay

\* ... and what it has sent.
LEMMA OtherSent ==
    ASSUME Grow, NEW q \in Procs, proc'[q] = proc[q], UNCHANGED delivered, OnceAt(q)
    PROVE  OnceAt(q)'
<1>1. \A d \in delivered : Own(d.key)' => Own(d.key)
  BY OwnEarlier, Zenon
<1> QED
  BY <1>1, Zenon DEF OnceAt

\* Deliveries stay right.
LEMMA DeliveredLater ==
    ASSUME Grow, UNCHANGED delivered, Delivered,
           \A d \in delivered : \/ d.pkt \in handled'
                                \/ \E p \in Procs : proc'[p].at = "send" /\ proc'[p].msg = d.pkt
    PROVE  Delivered'
<1> SUFFICES ASSUME NEW d \in delivered
             PROVE  /\ d.raw = d.pkt /\ d.to \in Macs /\ d.key \in used'[d.to]
                    /\ d.pkt \in Packets
                    /\ d.as = "answer" => d.key \in used'[d.pkt.src]
                    /\ d.as # "answer" =>
                         \E r \in Macs : d.key \in used'[r] /\ MayReach(r, d.pkt, d.as)'
  BY Zenon DEF Delivered
<1>1. d.raw = d.pkt /\ d.to \in Macs /\ d.key \in used[d.to] /\ d.pkt \in Packets
  BY Zenon DEF Delivered
<1>2. d.pkt.src \in Macs
  BY <1>1, Zenon DEF Packets
<1>3. d.as = "answer" => d.key \in used'[d.pkt.src]
  BY <1>2, Zenon DEF Delivered, Grow
<1>4. ASSUME d.as # "answer"
      PROVE  \E r \in Macs : d.key \in used'[r] /\ MayReach(r, d.pkt, d.as)'
  <2>1. PICK r \in Macs : d.key \in used[r] /\ MayReach(r, d.pkt, d.as)
    BY <1>4, Zenon DEF Delivered
  <2>2. d.key \in used'[r] /\ MayReach(r, d.pkt, d.as)'
    BY <2>1, MayReachLater, Zenon DEF Grow
  <2> QED
    BY <2>2, Zenon
<1> QED
  BY <1>1, <1>3, <1>4, Zenon DEF Grow

\* What was delivered twice does not become right.
LEMMA TwiceLater ==
    ASSUME Grow, UNCHANGED twice, Once, \A p \in Procs : OnceAt(p)'
    PROVE  Once'
<1>1. \A keys \in twice : /\ Own(keys[1])' => Own(keys[1])
                          /\ Own(keys[2])' => Own(keys[2])
  BY OwnEarlier, Zenon
<1> QED
  BY <1>1, Zenon DEF Once

\* A step in which no goroutine begins, continues or ends sending.
LEMMA NobodySends ==
    ASSUME IInv, Grow, ObjectsStay, UNCHANGED <<delivered, twice, handled>>,
           \A q \in Procs : \/ proc'[q] = proc[q]
                            \/ proc'[q].at # "send" /\ proc[q].at # "send"
    PROVE  Sending' /\ Delivered' /\ Once'
<1>1. TypedIO /\ Sending /\ Delivered /\ Once
  BY Zenon DEF IInv
<1>2. ASSUME NEW q \in Procs PROVE SendingAt(q)' /\ OnceAt(q)'
  <2>1. CASE proc'[q] = proc[q]
    BY <1>1, <2>1, OtherSends, OtherSent, Zenon DEF Sending, Once
  <2>2. CASE proc'[q].at # "send"
    BY <2>2, Zenon DEF SendingAt, OnceAt
  <2> QED
    BY <2>1, <2>2, Zenon
<1>3. \A d \in delivered : \/ d.pkt \in handled'
                           \/ \E p \in Procs : proc'[p].at = "send" /\ proc'[p].msg = d.pkt
  BY <1>1, Zenon DEF Delivered
<1>4. Delivered'
  BY <1>1, <1>3, DeliveredLater, Zenon
<1>5. Once'
  BY <1>1, <1>2, TwiceLater, Zenon
<1> QED
  BY <1>2, <1>4, <1>5, Zenon DEF Sending

\* A step of goroutines that hold no buffer before or after it.
Quiet == \A q \in Procs : \/ proc'[q] = proc[q]
                          \/ /\ proc'[q].at \notin {"got", "send"}
                             /\ proc[q].at \notin {"got", "send"}

\* The parts that a step without effect on their variables keeps.
LEMMA Frames ==
    ASSUME IInv
    PROVE  /\ UNCHANGED <<plan, received, home, used>> => TypedClients'
           /\ UNCHANGED <<edge, edges, edgesBySocket, refreshed, registered>> => TypedTables'
           /\ UNCHANGED <<conn, wssConnections, upgraded>> => TypedConns'
           /\ UNCHANGED <<reader, packetChan, pool>> /\ Quiet => Held'
           /\ UNCHANGED <<pool, buffer, received, handled, plan>> /\ Quiet => Contents'
           /\ UNCHANGED <<received, used, home, edge, registered, edgesBySocket>> => KnownKeys'
           /\ UNCHANGED <<edges, edge, registered, refreshed, used, edgesBySocket>> => Members'
<1>1. UNCHANGED <<plan, received, home, used>> => TypedClients'
  BY Zenon DEF IInv, TypedClients
<1>2. UNCHANGED <<edge, edges, edgesBySocket, refreshed, registered>> => TypedTables'
  BY Zenon DEF IInv, TypedTables
<1>3. UNCHANGED <<conn, wssConnections, upgraded>> => TypedConns'
  BY Zenon DEF IInv, TypedConns
<1>4. ASSUME UNCHANGED <<reader, packetChan, pool>>, Quiet PROVE Held'
  <2>1. \A q \in Procs : Holds(q)' <=> Holds(q)
    BY <1>4, Zenon DEF Quiet, Holds
  <2>2. \A q \in Procs : Holds(q) => proc'[q].buf = proc[q].buf
    BY <1>4, Zenon DEF Quiet, Holds
  <2>3. InUse' = InUse
    BY <1>4, Zenon DEF InUse, Buffers, Procs
  <2>4. Held
    BY Zenon DEF IInv
  <2> QED
    BY <1>4, <2>1, <2>2, <2>3, <2>4 DEF Held
<1>5. ASSUME UNCHANGED <<pool, buffer, received, handled, plan>>, Quiet PROVE Contents'
  <2>1. \A q \in Procs : Holds(q)' => Holds(q) /\ proc'[q] = proc[q]
    BY <1>5, Zenon DEF Quiet, Holds
  <2>2. \A q \in Procs : proc'[q].at = "send" => proc'[q] = proc[q]
    BY <1>5, Zenon DEF Quiet
  <2>3. InUse' = InUse
    BY <1>5, Zenon DEF InUse, Buffers, Procs
  <2>4. Contents /\ Transports \subseteq Procs
    BY Zenon DEF IInv, Procs
  <2> QED
    BY <1>5, <2>1, <2>2, <2>3, <2>4 DEF Contents
<1>6. UNCHANGED <<received, used, home, edge, registered, edgesBySocket>> => KnownKeys'
  BY Zenon DEF IInv, KnownKeys, Key
<1>7. UNCHANGED <<edges, edge, registered, refreshed, used, edgesBySocket>> => Members'
  BY Zenon DEF IInv, Members, Known, Obj, Own, Key
<1> QED
  BY <1>1, <1>2, <1>3, <1>4, <1>5, <1>6, <1>7, Zenon

\* Connections, while they and their goroutines' part in them stay.
LEMMA ConnectionsKept ==
    ASSUME IInv, UNCHANGED <<conn, wssConnections, upgraded>>,
           \A t \in Transports : \/ proc'[t].at = proc[t].at
                                 \/ proc[t].at # "idle" /\ proc'[t].at # "delete"
    PROVE  Connected'
<1>1. Connected
  BY Zenon DEF IInv
<1>2. \A t \in Transports : OnlyConnection(t)' <=> OnlyConnection(t)
  BY Zenon DEF OnlyConnection
<1>3. \A t \in Transports : proc'[t].at = "delete" => proc[t].at = "delete"
  BY Zenon
<1>4. \A t \in Transports : conn[t] = "new" => proc'[t].at = "idle"
  BY <1>1, Zenon DEF Connected
<1> QED
  BY <1>1, <1>2, <1>3, <1>4, Zenon DEF Connected

\* Stopping, while no worker ends.
LEMMA StoppingKept ==
    ASSUME IInv, UNCHANGED <<reader, packetChan, shutdown>>,
           \A p \in Workers : proc'[p].at = "ended" <=> proc[p].at = "ended"
    PROVE  Stopping'
BY Zenon DEF IInv, Stopping

\* A goroutine's next state.
LEMMA ProcFacts ==
    ASSUME TypedIO, NEW p \in Procs, NEW c, Goto(p, c)
    PROVE  /\ proc'[p] = c
           /\ \A q \in Procs : q # p => proc'[q] = proc[q]
           /\ c \in ProcRecords => proc' \in [Procs -> ProcRecords]
BY Zenon DEF TypedIO, Goto

\* A goroutine that has nothing to send is a record of the right type.
LEMMA IdleFacts ==
    /\ Idle \in ProcRecords
    /\ \A at \in {"idle", "got", "read", "delete", "ended"} : \A b \in Buffers \cup {0} :
         /\ [Idle EXCEPT !.at = at] \in ProcRecords /\ [Idle EXCEPT !.at = at].at = at
         /\ [Idle EXCEPT !.at = at, !.buf = b] \in ProcRecords
         /\ [Idle EXCEPT !.at = at, !.buf = b].at = at
         /\ [Idle EXCEPT !.at = at, !.buf = b].buf = b
BY Zenon DEF Idle, ProcRecords

\* Buffers are numbered, and there are finitely many goroutines.
LEMMA BufferFacts == Buffers \subseteq Nat /\ 0 \notin Buffers /\ IsFiniteSet(Procs)
<1>1. IsFiniteSet(Procs)
  BY ServiceAssumption, FS_Union, Zenon DEF Procs
<1>2. Cardinality(Procs) \in Nat
  BY <1>1, FS_CardinalityType, Zenon
<1> QED
  BY <1>1, <1>2, ServiceAssumption DEF Buffers

\* The first element leaves a channel ...
LEMMA TailFacts ==
    ASSUME NEW S, NEW s \in Seq(S), s # <<>>
    PROVE  /\ Head(s) = s[1] /\ 1 \in DOMAIN s /\ s[1] \in S
           /\ Tail(s) \in Seq(S) /\ Len(Tail(s)) = Len(s) - 1 /\ Len(s) \in Nat
           /\ \A i \in DOMAIN Tail(s) : i + 1 \in DOMAIN s /\ Tail(s)[i] = s[i + 1] /\ i # 0
           /\ \A i \in DOMAIN s : i # 1 => i - 1 \in DOMAIN Tail(s) /\ Tail(s)[i - 1] = s[i]
<1>1. Len(s) \in Nat /\ Len(s) # 0 /\ DOMAIN s = 1..Len(s)
  OBVIOUS
<1>2. Tail(s) \in Seq(S) /\ Len(Tail(s)) = Len(s) - 1 /\ Head(s) = s[1]
  BY <1>1
<1>3. DOMAIN Tail(s) = 1..(Len(s) - 1)
  BY <1>1, <1>2
<1>4. \A i \in 1..(Len(s) - 1) : Tail(s)[i] = s[i + 1]
  BY <1>1
<1>5. s[1] \in S
  BY <1>1
<1> QED
  BY <1>1, <1>2, <1>3, <1>4, <1>5

\* ... and one is added at its end.
LEMMA AppendFacts ==
    ASSUME NEW S, NEW s \in Seq(S), NEW e \in S
    PROVE  /\ Append(s, e) \in Seq(S) /\ Len(Append(s, e)) = Len(s) + 1 /\ Len(s) \in Nat
           /\ \A i \in DOMAIN s : i \in DOMAIN Append(s, e) /\ Append(s, e)[i] = s[i]
           /\ Len(s) + 1 \in DOMAIN Append(s, e) /\ Append(s, e)[Len(s) + 1] = e
           /\ \A i \in DOMAIN Append(s, e) : i = Len(s) + 1 \/ i \in DOMAIN s
<1>1. Len(s) \in Nat /\ DOMAIN s = 1..Len(s)
  OBVIOUS
<1>2. Append(s, e) \in Seq(S) /\ Len(Append(s, e)) = Len(s) + 1
  OBVIOUS
<1>3. DOMAIN Append(s, e) = 1..(Len(s) + 1)
  BY <1>1, <1>2
<1>4. \A i \in 1..Len(s) : Append(s, e)[i] = s[i]
  BY <1>1
<1>5. Append(s, e)[Len(s) + 1] = e
  BY <1>1
<1> QED
  BY <1>1, <1>2, <1>3, <1>4, <1>5

\* There are more buffers than the channel and the goroutines can hold.
LEMMA PoolNotEmpty ==
    ASSUME TypedIO, NEW f \in [Procs -> Buffers \cup {0}],
           \A b \in InUse : \/ \E i \in DOMAIN packetChan : packetChan[i] = b
                            \/ \E p \in Procs : f[p] = b
    PROVE  pool # {}
<1> SUFFICES ASSUME pool = {} PROVE FALSE
  BY Zenon
<1>1. PICK C, F : /\ C = {packetChan[i] : i \in DOMAIN packetChan}
                  /\ F = {f[p] : p \in Procs}
  BY Zenon
<1>2. IsFiniteSet(C) /\ Cardinality(C) <= Len(packetChan)
  <2>1. DOMAIN packetChan = 1..Len(packetChan) /\ Len(packetChan) \in Nat
    BY DEF TypedIO
  <2>2. packetChan \in Surjection(DOMAIN packetChan, C)
    BY <1>1, <2>1 DEF TypedIO, Surjection
  <2>3. IsFiniteSet(DOMAIN packetChan) /\ Cardinality(DOMAIN packetChan) = Len(packetChan)
    BY <2>1, FS_Interval
  <2> QED
    BY <2>2, <2>3, FS_Surjection
<1>3. IsFiniteSet(F) /\ Cardinality(F) <= Cardinality(Procs)
  <2>1. f \in Surjection(Procs, F)
    BY <1>1, Zenon DEF Surjection
  <2> QED
    BY <2>1, BufferFacts, FS_Surjection, Zenon
<1>4. Buffers \subseteq C \cup F
  BY <1>1, Zenon DEF InUse
<1>5. IsFiniteSet(C \cup F) /\ Cardinality(C \cup F) <= Cardinality(C) + Cardinality(F)
  <2>1. /\ IsFiniteSet(C \cup F)
        /\ Cardinality(C \cup F) = Cardinality(C) + Cardinality(F) - Cardinality(C \cap F)
    BY <1>2, <1>3, FS_Union, Zenon
  <2>2. IsFiniteSet(C \cap F)
    BY <1>2, FS_Intersection, Zenon
  <2>3. Cardinality(C \cap F) \in Nat /\ Cardinality(C) \in Nat /\ Cardinality(F) \in Nat
    BY <1>2, <1>3, <2>2, FS_CardinalityType, Zenon
  <2> QED
    BY <2>1, <2>3
<1>6. Cardinality(Procs) \in Nat /\ Cap \in Nat
  BY BufferFacts, FS_CardinalityType, ServiceAssumption, Zenon
<1>7. IsFiniteSet(Buffers) /\ Cardinality(Buffers) = Cardinality(Procs) + Cap + 1
  <2>1. PICK n \in Nat : n = Cardinality(Procs) + Cap + 1
    BY <1>6
  <2>2. IsFiniteSet(1..n) /\ Cardinality(1..n) = n
    BY <2>1, FS_Interval
  <2> QED
    BY <2>1, <2>2, Zenon DEF Buffers
<1>8. Cardinality(Buffers) <= Cardinality(C \cup F)
  BY <1>4, <1>5, FS_Subset, Zenon
<1>9. /\ Cardinality(C) \in Nat /\ Cardinality(F) \in Nat /\ Len(packetChan) \in Nat
      /\ Len(packetChan) <= Cap /\ Cardinality(C \cup F) \in Nat
  BY <1>2, <1>3, <1>5, FS_CardinalityType DEF TypedIO
<1> QED
  BY <1>2, <1>3, <1>5, <1>6, <1>7, <1>8, <1>9

-----------------------------------------------------------------------------
(* The first state *)

\* Initially the tables and the keys of the edges are those of the plan.
LEMMA InitClients ==
    ASSUME Init
    PROVE  /\ TypedClients /\ TypedTables /\ KnownKeys
           /\ \A m \in Macs : home[m] \in Addrs \cup {None}
<1>1. plan \in [members : UNION {[M -> Addrs] : M \in SUBSET Macs},
                packets : SUBSET Packets, faults : SUBSET {"stall", "break", "signal"}]
  BY ServiceAssumption, Zenon DEF Init
<1>2. PICK M \in SUBSET Macs : plan.members \in [M -> Addrs]
  BY <1>1, Zenon
<1>3. home \in [Macs -> Addrs \cup {None}]
  BY <1>2, Zenon DEF Init
<1>4. used \in [Macs -> SUBSET Keys]
  BY <1>3, Zenon DEF Init, Keys
<1>5. TypedClients
  BY <1>1, <1>3, <1>4, Zenon DEF Init, TypedClients
<1>6. TypedTables
  <2>1. edge \in [Objs -> EdgeRecords \cup {None}]
    <3> SUFFICES ASSUME NEW o \in Objs
                 PROVE  (IF o[2] = 1 /\ home[o[1]] # None
                         THEN [addr |-> home[o[1]], wss |-> None] ELSE None)
                        \in EdgeRecords \cup {None}
      BY Zenon DEF Init
    <3>1. o[1] \in Macs
      BY Zenon DEF Objs
    <3> QED
      BY <1>3, <3>1, Zenon DEF EdgeRecords
  <2>2. edges \in [Macs -> 0..MaxObjs]
    BY ServiceAssumption DEF Init
  <2>3. edgesBySocket \in [Keys \cup {None} -> Macs \cup {None}]
    BY Zenon DEF Init, Keys
  <2>4. /\ refreshed \in [Macs -> Addrs \cup Transports \cup {None}]
        /\ registered \in [Macs -> Addrs \cup Transports \cup {None}]
    BY <1>3, Zenon DEF Init
  <2> QED
    BY <2>1, <2>2, <2>3, <2>4, Zenon DEF TypedTables
<1>7. \A m \in Macs : home[m] # None => Key(home[m]) = home[m] /\ home[m] \in used[m]
  BY <1>3, KeyFacts, Zenon DEF Init
<1>8. KnownKeys
  <2>1. received = {} /\ registered = home
    BY Zenon DEF Init
  <2>2. \A o \in Objs : edge[o] # None => /\ edge[o].addr \in used[o[1]] \cup {None}
                                         /\ edge[o].wss \in used[o[1]] \cup {None}
    <3> SUFFICES ASSUME NEW o \in Objs, edge[o] # None
                 PROVE  /\ edge[o].addr \in used[o[1]] \cup {None}
                        /\ edge[o].wss \in used[o[1]] \cup {None}
      BY Zenon
    <3>1. o[1] \in Macs
      BY Zenon DEF Objs
    <3>2. edge[o] = [addr |-> home[o[1]], wss |-> None] /\ home[o[1]] # None
      BY Zenon DEF Init
    <3> QED
      BY <1>7, <3>1, <3>2
  <2>3. \A k \in Keys : edgesBySocket[k] # None => k \in used[edgesBySocket[k]]
    <3> SUFFICES ASSUME NEW k \in Keys, edgesBySocket[k] # None
                 PROVE  k \in used[edgesBySocket[k]]
      BY Zenon
    <3>1. /\ \E m \in Macs : home[m] = k
          /\ edgesBySocket[k] = CHOOSE m \in Macs : home[m] = k
      BY Zenon DEF Init, Keys
    <3>2. edgesBySocket[k] \in Macs /\ home[edgesBySocket[k]] = k
      BY <3>1, Zenon
    <3> QED
      BY <1>7, <3>2, KeyFacts, Zenon
  <2> QED
    BY <1>7, <2>1, <2>2, <2>3, Zenon DEF KnownKeys
<1> QED
  BY <1>3, <1>5, <1>6, <1>8, Zenon

\* The members of the first state registered by UDP.
LEMMA InitMembers ==
    ASSUME Init
    PROVE  Members
<1> SUFFICES ASSUME NEW m \in Macs, Known(m)
             PROVE  /\ edge[Obj(m)] # None /\ registered[m] # None
                    /\ refreshed[m] \in Addrs => edge[Obj(m)].addr = refreshed[m]
                    /\ registered[m] \in Transports => edge[Obj(m)].wss = ConnOf[registered[m]]
                    /\ Own(Key(registered[m])) => edgesBySocket[Key(registered[m])] = m
  BY Zenon DEF Members
<1>1. home[m] # None /\ edges[m] = 1
  BY Zenon DEF Init, Known
<1>2. home[m] \in Addrs /\ Key(home[m]) = home[m]
  BY <1>1, InitClients, KeyFacts, Zenon
<1>3. Obj(m) \in Objs /\ Obj(m)[1] = m /\ Obj(m)[2] = 1
  BY <1>1, ServiceAssumption DEF Obj, Objs
<1>4. edge[Obj(m)] = [addr |-> home[m], wss |-> None]
  BY <1>1, <1>3, Zenon DEF Init
<1>5. edge[Obj(m)] # None
  BY <1>2, <1>4, ServiceAssumption DEF EdgeRecords
<1>6. registered[m] = home[m] /\ refreshed[m] = home[m]
  BY Zenon DEF Init
<1>7. registered[m] \notin Transports
  BY <1>2, <1>6, ServiceAssumption, Zenon
<1>8. ASSUME Own(home[m]) PROVE edgesBySocket[home[m]] = m
  <2>1. PICK n : n = CHOOSE x \in Macs : home[x] = home[m]
    BY Zenon
  <2>2. n \in Macs /\ home[n] = home[m]
    BY <2>1, Zenon
  <2>3. edgesBySocket[home[m]] = n
    BY <1>1, <1>2, <2>1, Zenon DEF Init
  <2>4. home[m] \in used[m] /\ home[m] \in used[n]
    BY <1>1, <2>2, Zenon DEF Init
  <2> QED
    BY <1>8, <2>2, <2>3, <2>4, OwnsOne, Zenon
<1> QED
  BY <1>1, <1>2, <1>4, <1>5, <1>6, <1>7, <1>8

\* The invariant holds in the first state.
THEOREM InitInv == Init => IInv
<1> SUFFICES ASSUME Init PROVE IInv
  BY Zenon
<1>1. /\ reader = [at |-> "top", buf |-> 0] /\ packetChan = <<>> /\ pool = Buffers
      /\ buffer = [b \in Buffers |-> None] /\ proc = [p \in Procs |-> Idle]
      /\ shutdown = "no" /\ conn = [t \in Transports |-> "new"]
      /\ wssConnections = [c \in Conns |-> None]
      /\ upgraded = {} /\ received = {} /\ handled = {} /\ delivered = {} /\ twice = {}
  BY Zenon DEF Init
<1>2. \A p \in Procs : proc[p].at = "idle"
  BY <1>1, Zenon DEF Idle
<1>3. TypedIO
  <2>1. packetChan \in Seq(Buffers) /\ Len(packetChan) <= Cap
    BY <1>1, ServiceAssumption
  <2> QED
    BY <1>1, <2>1, IdleFacts, Zenon DEF TypedIO
<1>4. TypedConns
  BY <1>1, Zenon DEF TypedConns
<1>5. InUse = {}
  BY <1>1, Zenon DEF InUse
<1>6. Held
  BY <1>1, <1>2, <1>5 DEF Held, Holds
<1>7. Contents
  BY <1>1, <1>2, <1>5, Zenon DEF Contents, Holds, Procs
<1>8. Connected
  BY <1>1, <1>2, Zenon DEF Connected, Procs
<1>9. Sending /\ Delivered /\ Once
  BY <1>1, <1>2, Zenon DEF Sending, SendingAt, Delivered, Once, OnceAt
<1>10. Stopping
  BY <1>1, <1>2, Zenon DEF Stopping, Procs
<1> QED
  BY <1>3, <1>4, <1>6, <1>7, <1>8, <1>9, <1>10, InitClients, InitMembers, Zenon DEF IInv

-----------------------------------------------------------------------------
(* Receiving *)

\* The receive loop goes on to read, or ends when shutdownCh is closed.
LEMMA ReaderTopStep ==
    ASSUME IInv, ReaderTop
    PROVE  IInv'
<1>1. /\ UNCHANGED <<edge, edges, edgesBySocket, wssConnections, conn, packetChan, buffer,
                     pool, proc, shutdown, plan, home, used, refreshed, registered,
                     upgraded, received, handled, delivered, twice>>
      /\ reader.at = "top" /\ reader'.at \in {"read", "ended"}
      /\ reader' \in [at : {"top", "read", "queue", "ended"}, buf : Buffers \cup {0}]
  BY Zenon DEF ReaderTop, tables, ends, clients, history, IInv, TypedIO
<1>2. Quiet /\ Grow /\ ObjectsStay
  BY <1>1, Zenon DEF Quiet, Grow, ObjectsStay
<1>3. TypedIO'
  BY <1>1, Zenon DEF IInv, TypedIO, Buffers, Procs, ProcRecords
<1>4. TypedClients' /\ TypedTables' /\ TypedConns' /\ Contents' /\ KnownKeys' /\ Members'
  BY <1>1, <1>2, Frames, Zenon
<1>5. Connected'
  BY <1>1, ConnectionsKept, Zenon
<1>6. Sending' /\ Delivered' /\ Once'
  BY <1>1, <1>2, NobodySends, Zenon
<1>7. Held'
  <2>1. \A q \in Procs : (Holds(q)' <=> Holds(q)) /\ proc'[q].buf = proc[q].buf
    BY <1>1, Zenon DEF Holds
  <2>2. InUse' = InUse
    BY <1>1, Zenon DEF InUse
  <2>3. Held
    BY Zenon DEF IInv
  <2> QED
    BY <1>1, <2>1, <2>2, <2>3, Zenon DEF Held
<1>8. Stopping'
  BY <1>1, Zenon DEF IInv, Stopping
<1> QED
  BY <1>3, <1>4, <1>5, <1>6, <1>7, <1>8, Zenon DEF IInv

\* The receive loop hands its buffer to the channel.
LEMMA ReaderQueuesStep ==
    ASSUME IInv, ReaderQueues
    PROVE  IInv'
<1>1. /\ UNCHANGED <<edge, edges, edgesBySocket, wssConnections, conn, buffer,
                     pool, proc, shutdown, plan, home, used, refreshed, registered,
                     upgraded, received, handled, delivered, twice>>
      /\ reader.at = "queue" /\ reader' = [at |-> "top", buf |-> 0]
      /\ Len(packetChan) < Cap /\ packetChan' = Append(packetChan, reader.buf)
  BY Zenon DEF ReaderQueues, tables, ends, clients, history
<1>2. Quiet /\ Grow /\ ObjectsStay
  BY <1>1, Zenon DEF Quiet, Grow, ObjectsStay
<1>3. packetChan \in Seq(Buffers) /\ reader.buf \in Buffers /\ Held
  BY <1>1, Zenon DEF IInv, TypedIO, Held, InUse
<1>4. /\ packetChan' \in Seq(Buffers) /\ Len(packetChan') <= Cap
      /\ Len(packetChan) \in Nat
      /\ \A i \in DOMAIN packetChan : i \in DOMAIN packetChan' /\ packetChan'[i] = packetChan[i]
      /\ Len(packetChan) + 1 \in DOMAIN packetChan'
      /\ packetChan'[Len(packetChan) + 1] = reader.buf
      /\ \A i \in DOMAIN packetChan' : i = Len(packetChan) + 1 \/ i \in DOMAIN packetChan
  <2>1. /\ packetChan' \in Seq(Buffers) /\ Len(packetChan') = Len(packetChan) + 1
        /\ Len(packetChan) \in Nat
        /\ \A i \in DOMAIN packetChan : i \in DOMAIN packetChan' /\ packetChan'[i] = packetChan[i]
        /\ Len(packetChan) + 1 \in DOMAIN packetChan'
        /\ packetChan'[Len(packetChan) + 1] = reader.buf
        /\ \A i \in DOMAIN packetChan' : i = Len(packetChan) + 1 \/ i \in DOMAIN packetChan
    BY <1>1, <1>3, AppendFacts
  <2>2. Len(packetChan') <= Cap
    BY <1>1, <2>1, ServiceAssumption
  <2> QED
    BY <2>1, <2>2, Zenon
<1>5. TypedIO'
  <2>1. reader' \in [at : {"top", "read", "queue", "ended"}, buf : Buffers \cup {0}]
    BY <1>1, Zenon
  <2> QED
    BY <1>1, <1>4, <2>1, Zenon DEF IInv, TypedIO
<1>6. TypedClients' /\ TypedTables' /\ TypedConns' /\ Contents' /\ KnownKeys' /\ Members'
  BY <1>1, <1>2, Frames, Zenon
<1>7. Connected'
  BY <1>1, ConnectionsKept, Zenon
<1>8. Sending' /\ Delivered' /\ Once'
  BY <1>1, <1>2, NobodySends, Zenon
<1>9. Held'
  <2>1. \A q \in Procs : (Holds(q)' <=> Holds(q)) /\ proc'[q].buf = proc[q].buf
    BY <1>1, Zenon DEF Holds
  <2>2. InUse' = InUse /\ reader'.at # "queue"
    BY <1>1, Zenon DEF InUse
  <2>3. \A i \in DOMAIN packetChan' :
          /\ packetChan'[i] \in InUse
          /\ \A j \in DOMAIN packetChan' : packetChan'[i] = packetChan'[j] => i = j
          /\ \A p \in Procs : Holds(p) => proc[p].buf # packetChan'[i]
    BY <1>1, <1>3, <1>4 DEF Held
  <2>4. \A b \in InUse : \/ \E i \in DOMAIN packetChan' : packetChan'[i] = b
                         \/ \E p \in Procs : Holds(p) /\ proc[p].buf = b
    BY <1>1, <1>3, <1>4 DEF Held
  <2>5. \A p \in Procs : Holds(p) =>
          /\ proc[p].buf \in InUse
          /\ \A q \in Procs \ {p} : Holds(q) => proc[q].buf # proc[p].buf
    BY <1>3, Zenon DEF Held
  <2> QED
    BY <2>1, <2>2, <2>3, <2>4, <2>5, Zenon DEF Held
<1>10. Stopping'
  BY <1>1, Zenon DEF IInv, Stopping
<1> QED
  BY <1>5, <1>6, <1>7, <1>8, <1>9, <1>10 DEF IInv

\* A worker takes the oldest buffer from the channel.
LEMMA TakeStep ==
    ASSUME IInv, NEW p \in Workers, Take(p)
    PROVE  IInv'
<1> DEFINE c == [Idle EXCEPT !.at = "got", !.buf = Head(packetChan)]
<1>1. /\ UNCHANGED <<edge, edges, edgesBySocket, wssConnections, conn, buffer, reader,
                     pool, shutdown, plan, home, used, refreshed, registered,
                     upgraded, received, handled, delivered, twice>>
      /\ proc[p].at = "idle" /\ packetChan # <<>> /\ packetChan' = Tail(packetChan)
      /\ Goto(p, c)
  BY Zenon DEF Take, tables, ends, clients, history
<1>2. Grow /\ ObjectsStay /\ p \in Procs /\ p \notin Transports
  BY <1>1, ServiceAssumption, Zenon DEF Grow, ObjectsStay, Procs
<1>3. packetChan \in Seq(Buffers) /\ Held /\ TypedIO /\ Contents /\ Len(packetChan) <= Cap
  BY Zenon DEF IInv, TypedIO
<1>4. /\ Head(packetChan) = packetChan[1] /\ 1 \in DOMAIN packetChan
      /\ packetChan[1] \in Buffers
      /\ packetChan' \in Seq(Buffers) /\ Len(packetChan') = Len(packetChan) - 1
      /\ Len(packetChan) \in Nat
      /\ \A i \in DOMAIN packetChan' : /\ i + 1 \in DOMAIN packetChan
                                       /\ packetChan'[i] = packetChan[i + 1] /\ i # 0
      /\ \A i \in DOMAIN packetChan : i # 1 => /\ i - 1 \in DOMAIN packetChan'
                                              /\ packetChan'[i - 1] = packetChan[i]
  BY <1>1, <1>3, TailFacts, Zenon
<1>5. c \in ProcRecords /\ c.at = "got" /\ c.buf = packetChan[1]
  BY <1>4, Zenon DEF Idle, ProcRecords
<1> HIDE DEF c
<1>6. /\ proc'[p] = c /\ \A q \in Procs : q # p => proc'[q] = proc[q]
      /\ proc' \in [Procs -> ProcRecords]
  BY <1>1, <1>2, <1>3, <1>5, ProcFacts, Zenon
<1>7. /\ Holds(p)' /\ ~Holds(p) /\ proc'[p].buf = packetChan[1]
      /\ \A q \in Procs : q # p => (Holds(q)' <=> Holds(q)) /\ proc'[q].buf = proc[q].buf
  BY <1>1, <1>5, <1>6, Zenon DEF Holds
<1>8. TypedIO'
  <2>1. Len(packetChan') <= Cap
    BY <1>3, <1>4, ServiceAssumption
  <2> QED
    BY <1>1, <1>3, <1>4, <1>6, <2>1, Zenon DEF TypedIO
<1>9. TypedClients' /\ TypedTables' /\ TypedConns' /\ KnownKeys' /\ Members'
  BY <1>1, Frames, Zenon
<1>10. Connected'
  <2>1. \A t \in Transports : proc'[t].at = proc[t].at
    BY <1>2, <1>6, Zenon DEF Procs
  <2> QED
    BY <1>1, <2>1, ConnectionsKept, Zenon
<1>11. Sending' /\ Delivered' /\ Once'
  <2>1. \A q \in Procs : \/ proc'[q] = proc[q]
                         \/ proc'[q].at # "send" /\ proc[q].at # "send"
    BY <1>1, <1>5, <1>6, Zenon
  <2> QED
    BY <1>1, <1>2, <2>1, NobodySends, Zenon
<1>12. InUse' = InUse
  BY <1>1, Zenon DEF InUse
<1>13. Held'
  <2>1. reader.at = "queue" =>
          /\ reader.buf \in InUse
          /\ \A i \in DOMAIN packetChan' : packetChan'[i] # reader.buf
          /\ \A q \in Procs : Holds(q)' => proc'[q].buf # reader.buf
    BY <1>3, <1>4, <1>7 DEF Held
  <2>2. ASSUME NEW i \in DOMAIN packetChan'
        PROVE  /\ packetChan'[i] \in InUse
               /\ \A j \in DOMAIN packetChan' : packetChan'[i] = packetChan'[j] => i = j
               /\ \A q \in Procs : Holds(q)' => proc'[q].buf # packetChan'[i]
    <3>1. packetChan'[i] \in InUse
      BY <1>3, <1>4 DEF Held
    <3>2. i \in Nat /\ i # 0
      <4>1. DOMAIN packetChan' = 1..Len(packetChan')
        BY <1>4
      <4> QED
        BY <1>4, <4>1
    <3>3. ASSUME NEW j \in DOMAIN packetChan', packetChan'[i] = packetChan'[j] PROVE i = j
      <4>1. i + 1 = j + 1
        BY <1>3, <1>4, <3>3 DEF Held
      <4>2. j \in Nat
        <5>1. DOMAIN packetChan' = 1..Len(packetChan')
          BY <1>4
        <5> QED
          BY <1>4, <5>1
      <4> QED
        BY <3>2, <4>1, <4>2
    <3>4. packetChan'[i] # packetChan[1]
      <4>1. i + 1 # 1
        BY <3>2
      <4> QED
        BY <1>3, <1>4, <4>1, Zenon DEF Held
    <3>5. \A q \in Procs : Holds(q)' => proc'[q].buf # packetChan'[i]
      BY <1>3, <1>4, <1>7, <3>4 DEF Held
    <3> QED
      BY <3>1, <3>3, <3>5, Zenon
  <2>3. ASSUME NEW q \in Procs, Holds(q)'
        PROVE  /\ proc'[q].buf \in InUse
               /\ \A r \in Procs \ {q} : Holds(r)' => proc'[r].buf # proc'[q].buf
    BY <1>3, <1>4, <1>7, <2>3 DEF Held
  <2>4. ASSUME NEW b \in InUse
        PROVE  \/ reader.at = "queue" /\ reader.buf = b
               \/ \E i \in DOMAIN packetChan' : packetChan'[i] = b
               \/ \E q \in Procs : Holds(q)' /\ proc'[q].buf = b
    <3>1. CASE reader.at = "queue" /\ reader.buf = b
      BY <3>1, Zenon
    <3>2. CASE \E i \in DOMAIN packetChan : packetChan[i] = b
      BY <1>2, <1>4, <1>7, <3>2, Zenon
    <3>3. CASE \E q \in Procs : Holds(q) /\ proc[q].buf = b
      BY <1>7, <3>3, Zenon
    <3> QED
      BY <1>3, <3>1, <3>2, <3>3, Zenon DEF Held
  <2> QED
    BY <1>1, <1>12, <2>1, <2>2, <2>3, <2>4, Zenon DEF Held
<1>14. Contents'
  <2>1. \A q \in Procs : proc'[q].at = "send" => proc'[q] = proc[q] /\ proc[q].at = "send"
    BY <1>5, <1>6, Zenon
  <2>2. \A t \in Transports : (Holds(t)' <=> Holds(t)) /\ proc'[t].buf = proc[t].buf
    BY <1>2, <1>7, Zenon DEF Procs
  <2> QED
    BY <1>1, <1>3, <1>12, <2>1, <2>2 DEF Contents
<1>15. Stopping'
  <2>1. proc'[p].at # "ended" /\ \A q \in Workers : q # p => proc'[q] = proc[q]
    BY <1>5, <1>6, Zenon DEF Procs
  <2>2. \A q \in Workers : proc[q].at # "ended"
    BY <1>1, Zenon DEF IInv, Stopping
  <2>3. shutdown # "complete"
    BY <2>2, Zenon DEF IInv, Stopping
  <2> QED
    BY <1>1, <2>1, <2>2, <2>3, Zenon DEF Stopping
<1> QED
  BY <1>8, <1>9, <1>10, <1>11, <1>13, <1>14, <1>15, Zenon DEF IInv

\* A worker ends when the channel is closed and empty.
LEMMA WorkerEndsStep ==
    ASSUME IInv, NEW p \in Workers, WorkerEnds(p)
    PROVE  IInv'
<1>1. /\ UNCHANGED <<edge, edges, edgesBySocket, wssConnections, conn, buffer, reader,
                     packetChan, pool, shutdown, plan, home, used, refreshed, registered,
                     upgraded, received, handled, delivered, twice>>
      /\ proc[p].at = "idle" /\ packetChan = <<>> /\ reader.at = "ended"
      /\ Goto(p, [Idle EXCEPT !.at = "ended"])
  BY Zenon DEF WorkerEnds, tables, io, ends, clients, history
<1>2. Grow /\ ObjectsStay /\ p \in Procs /\ p \notin Transports /\ TypedIO
  BY <1>1, ServiceAssumption, Zenon DEF Grow, ObjectsStay, Procs, IInv
<1>3. [Idle EXCEPT !.at = "ended"] \in ProcRecords /\ [Idle EXCEPT !.at = "ended"].at = "ended"
  BY IdleFacts, Zenon
<1>4. /\ proc'[p].at = "ended" /\ \A q \in Procs : q # p => proc'[q] = proc[q]
      /\ proc' \in [Procs -> ProcRecords]
  BY <1>1, <1>2, <1>3, ProcFacts, Zenon
<1>5. Quiet
  BY <1>1, <1>4, Zenon DEF Quiet
<1>6. TypedIO'
  BY <1>1, <1>2, <1>4, Zenon DEF TypedIO
<1>7. TypedClients' /\ TypedTables' /\ TypedConns' /\ Held' /\ Contents' /\ KnownKeys' /\ Members'
  BY <1>1, <1>5, Frames, Zenon
<1>8. Connected'
  <2>1. \A t \in Transports : proc'[t].at = proc[t].at
    BY <1>2, <1>4, Zenon DEF Procs
  <2> QED
    BY <1>1, <2>1, ConnectionsKept, Zenon
<1>9. Sending' /\ Delivered' /\ Once'
  BY <1>1, <1>2, <1>5, NobodySends, Zenon DEF Quiet
<1>10. Stopping'
  <2>1. shutdown # "complete"
    BY <1>1, Zenon DEF IInv, Stopping
  <2> QED
    BY <1>1, <2>1, Zenon DEF Stopping
<1> QED
  BY <1>6, <1>7, <1>8, <1>9, <1>10, Zenon DEF IInv

-----------------------------------------------------------------------------
(* Packets are read *)

\* The edge that sends: its socket is a new home, and known as one it used.
LEMMA SendsFacts ==
    ASSUME IInv, NEW k \in plan.packets, Sends(k),
           UNCHANGED <<edge, edges, edgesBySocket, refreshed, registered>>
    PROVE  /\ TypedClients' /\ TypedTables' /\ KnownKeys' /\ Members' /\ Grow /\ ObjectsStay
           /\ k \in Packets /\ k \notin received /\ k \notin plan'.packets
           /\ plan'.packets \subseteq plan.packets /\ received' = received \cup {k}
<1>1. /\ plan' = [plan EXCEPT !.packets = @ \ {k}]
      /\ received' = received \cup {k}
      /\ home' = [home EXCEPT ![k.src] = k.from]
      /\ used' = [used EXCEPT ![k.src] = @ \cup {Key(k.from)}]
  BY Zenon DEF Sends
<1>2. TypedClients /\ KnownKeys /\ Members /\ Contents /\ TypedTables
  BY Zenon DEF IInv
<1>3. k \in Packets /\ k \notin received
  BY <1>2, Zenon DEF TypedClients, Contents
<1>4. k.src \in Macs /\ k.from \in Addrs \cup Transports /\ Key(k.from) \in Keys
  BY <1>3, KeyFacts, Zenon DEF Packets
<1>5. plan'.packets = plan.packets \ {k}
  BY <1>1, <1>2, Zenon DEF TypedClients
<1>6. \A m \in Macs : used[m] \subseteq used'[m]
  BY <1>1, <1>2, Zenon DEF TypedClients
<1>7. Key(k.from) \in used'[k.src]
  BY <1>1, <1>2, <1>4, Zenon DEF TypedClients
<1>8. TypedClients'
  <2>1. plan' \in [members : UNION {[M -> Addrs] : M \in SUBSET Macs},
                   packets : SUBSET Packets, faults : SUBSET {"stall", "break", "signal"}]
    <3>1. PICK A, B, C : /\ plan \in [members : A, packets : SUBSET B, faults : C]
                         /\ A = UNION {[M -> Addrs] : M \in SUBSET Macs}
                         /\ B = Packets /\ C = SUBSET {"stall", "break", "signal"}
      BY <1>2, Zenon DEF TypedClients
    <3>2. plan' \in [members : A, packets : SUBSET B, faults : C]
      BY <1>1, <3>1, Zenon
    <3> QED
      BY <3>1, <3>2, Zenon
  <2>2. used' \in [Macs -> SUBSET Keys]
    BY <1>1, <1>2, <1>4, Zenon DEF TypedClients
  <2>3. home' \in [Macs -> Addrs \cup Transports \cup {None}]
    BY <1>1, <1>2, <1>4, Zenon DEF TypedClients
  <2> QED
    BY <1>1, <1>2, <1>3, <2>1, <2>2, <2>3, Zenon DEF TypedClients
<1>9. TypedTables'
  BY Frames, Zenon
<1>10. KnownKeys'
  <2>1. \A j \in received' : Key(j.from) \in used'[j.src]
    <3>1. \A j \in received : j.src \in Macs
      BY <1>2, Zenon DEF TypedClients, Packets
    <3> QED
      BY <1>1, <1>2, <1>6, <1>7, <3>1, Zenon DEF KnownKeys
  <2>2. \A m \in Macs : home'[m] # None => Key(home'[m]) \in used'[m]
    <3>1. home'[k.src] = k.from /\ \A m \in Macs : m # k.src => home'[m] = home[m]
      BY <1>1, <1>2, <1>4, Zenon DEF TypedClients
    <3> QED
      BY <1>2, <1>6, <1>7, <3>1, Zenon DEF KnownKeys
  <2>3. \A o \in Objs : edge[o] # None => /\ edge[o].addr \in used'[o[1]] \cup {None}
                                         /\ edge[o].wss \in used'[o[1]] \cup {None}
    <3>1. \A o \in Objs : o[1] \in Macs
      BY Zenon DEF Objs
    <3> QED
      BY <1>2, <1>6, <3>1, Zenon DEF KnownKeys
  <2>4. \A m \in Macs : registered[m] # None => Key(registered[m]) \in used'[m]
    BY <1>2, <1>6, Zenon DEF KnownKeys
  <2>5. \A j \in Keys : edgesBySocket[j] # None => j \in used'[edgesBySocket[j]]
    <3>1. \A j \in Keys : edgesBySocket[j] # None => edgesBySocket[j] \in Macs
      BY <1>2, Zenon DEF TypedTables
    <3> QED
      BY <1>2, <1>6, <3>1, Zenon DEF KnownKeys
  <2> QED
    BY <2>1, <2>2, <2>3, <2>4, <2>5, Zenon DEF KnownKeys, Key
<1>11. Grow /\ ObjectsStay
  BY <1>6, Zenon DEF Grow, ObjectsStay
<1>12. Members'
  <2>1. ASSUME NEW m \in Macs, Own(Key(registered[m]))' PROVE Own(Key(registered[m]))
    <3>1. PICK key : key = Key(registered[m])
      BY Zenon
    <3>2. key = Key(registered[m])'
      BY <3>1, Zenon DEF Key
    <3>3. Own(key)'
      BY <2>1, <3>2, Zenon
    <3> QED
      BY <1>11, <3>1, <3>3, OwnEarlier, Zenon
  <2>2. \A m \in Macs : (Known(m)' <=> Known(m)) /\ Obj(m)' = Obj(m)
    BY Zenon DEF Known, Obj
  <2>3. \A m \in Macs : Key(registered[m])' = Key(registered[m])
    BY Zenon DEF Key
  <2> QED
    BY <1>2, <2>1, <2>2, <2>3 DEF Members
<1> QED
  BY <1>1, <1>3, <1>5, <1>8, <1>9, <1>10, <1>11, <1>12, Zenon

\* A packet is read into buffer b.
LEMMA ReadContents ==
    ASSUME IInv, NEW k \in plan.packets, Sends(k), NEW b \in pool,
           k \in Packets, k \notin received, k \notin plan'.packets,
           plan'.packets \subseteq plan.packets, received' = received \cup {k},
           buffer' = [buffer EXCEPT ![b] = k], pool' = pool \ {b}, UNCHANGED handled,
           \A q \in Procs :
             \/ proc'[q] = proc[q]
             \/ proc'[q].at = "got" /\ proc'[q].buf = b /\ (q \in Transports => k.from = q)
    PROVE  Contents' /\ InUse' = InUse \cup {b} /\ buffer' \in [Buffers -> Packets \cup {None}]
<1>1. Contents /\ Held /\ TypedIO
  BY Zenon DEF IInv
<1>2. InUse' = InUse \cup {b} /\ b \notin InUse /\ b \in Buffers
  BY <1>1 DEF InUse, TypedIO
<1>3. buffer'[b] = k /\ \A c \in Buffers : c # b => buffer'[c] = buffer[c]
  BY <1>1, <1>2, Zenon DEF TypedIO
<1>4. buffer' \in [Buffers -> Packets \cup {None}]
  BY <1>1, Zenon DEF TypedIO
<1>5. InUse \subseteq Buffers
  BY Zenon DEF InUse
<1>6. \A c \in InUse' : buffer'[c] \in received' \ handled'
  BY <1>1, <1>2, <1>3, <1>5 DEF Contents
<1>7. \A c, d \in InUse' : buffer'[c] = buffer'[d] => c = d
  BY <1>1, <1>2, <1>3, <1>5 DEF Contents
<1>8. \A j \in received' \ handled' : \E c \in InUse' : buffer'[c] = j
  <2> SUFFICES ASSUME NEW j \in received' \ handled' PROVE \E c \in InUse' : buffer'[c] = j
    BY Zenon
  <2>1. CASE j = k
    BY <1>2, <1>3, <2>1, Zenon
  <2>2. CASE j # k
    <3>1. PICK c \in InUse : buffer[c] = j
      BY <1>1, <2>2, Zenon DEF Contents
    <3> QED
      BY <1>2, <1>3, <1>5, <3>1, Zenon
  <2> QED
    BY <2>1, <2>2, Zenon
<1>9. plan'.packets \cap received' = {} /\ handled' \subseteq received'
  BY <1>1 DEF Contents
<1>10. ASSUME NEW q \in Procs, proc'[q].at = "send" PROVE proc'[q].msg = buffer'[proc'[q].buf]
  <2>1. proc'[q] = proc[q] /\ proc[q].at = "send"
    BY <1>10, Zenon
  <2>2. proc[q].buf \in InUse
    BY <1>1, <2>1, Zenon DEF Held, Holds
  <2>3. buffer'[proc[q].buf] = buffer[proc[q].buf]
    BY <1>2, <1>3, <1>5, <2>2, Zenon
  <2> QED
    BY <1>1, <2>1, <2>3, Zenon DEF Contents
<1>11. ASSUME NEW t \in Transports, Holds(t)' PROVE buffer'[proc'[t].buf].from = t
  <2>1. t \in Procs
    BY Zenon DEF Procs
  <2>2. CASE proc'[t] = proc[t]
    <3>1. Holds(t)
      BY <1>11, <2>2, Zenon DEF Holds
    <3>2. proc[t].buf \in InUse
      BY <1>1, <2>1, <3>1, Zenon DEF Held
    <3>3. buffer'[proc[t].buf] = buffer[proc[t].buf]
      BY <1>2, <1>3, <1>5, <3>2, Zenon
    <3> QED
      BY <1>1, <2>2, <3>1, <3>3 DEF Contents
  <2>3. CASE proc'[t].buf = b /\ k.from = t
    BY <1>3, <2>3, Zenon
  <2> QED
    BY <2>1, <2>2, <2>3, Zenon
<1> QED
  BY <1>2, <1>4, <1>6, <1>7, <1>8, <1>9, <1>10, <1>11, Zenon DEF Contents

\* The receive loop reads a packet into its buffer.
LEMMA ReadFromUDPStep ==
    ASSUME IInv, NEW k \in plan.packets, ReadFromUDP(k)
    PROVE  IInv'
<1>1. PICK b : b = Get
  BY Zenon
<1>2. /\ UNCHANGED <<edge, edges, edgesBySocket, wssConnections, conn, packetChan, proc,
                     shutdown, refreshed, registered, upgraded, handled, delivered, twice>>
      /\ reader.at = "read" /\ Sends(k) /\ buffer' = [buffer EXCEPT ![b] = k]
      /\ pool' = pool \ {b} /\ reader' = [at |-> "queue", buf |-> b]
  BY <1>1, Zenon DEF ReadFromUDP, tables, ends, history
<1>3. TypedIO /\ Held
  BY Zenon DEF IInv
<1>4. b \in pool /\ b \in Buffers
  <2>1. PICK f \in [Procs -> Buffers \cup {0}] : \A p \in Procs : f[p] = proc[p].buf
    <3>1. [p \in Procs |-> proc[p].buf] \in [Procs -> Buffers \cup {0}]
      BY <1>3, Zenon DEF TypedIO, ProcRecords
    <3> QED
      BY <3>1, Zenon
  <2>2. \A c \in InUse : \/ \E i \in DOMAIN packetChan : packetChan[i] = c
                         \/ \E p \in Procs : f[p] = c
    BY <1>2, <1>3, <2>1 DEF Held
  <2>3. pool # {}
    BY <1>3, <2>2, PoolNotEmpty, Zenon
  <2> QED
    BY <1>1, <1>3, <2>3, Zenon DEF Get, TypedIO
<1>5. /\ TypedClients' /\ TypedTables' /\ KnownKeys' /\ Members' /\ Grow /\ ObjectsStay
      /\ k \in Packets /\ k \notin received /\ k \notin plan'.packets
      /\ plan'.packets \subseteq plan.packets /\ received' = received \cup {k}
  BY <1>2, SendsFacts, Zenon
<1>6. Contents' /\ InUse' = InUse \cup {b} /\ buffer' \in [Buffers -> Packets \cup {None}]
  BY <1>2, <1>4, <1>5, ReadContents, Zenon
<1>7. TypedIO'
  BY <1>2, <1>3, <1>4, <1>6, Zenon DEF TypedIO
<1>8. TypedConns'
  BY <1>2, Frames, Zenon
<1>9. Connected'
  BY <1>2, ConnectionsKept, Zenon
<1>10. Sending' /\ Delivered' /\ Once'
  BY <1>2, <1>5, NobodySends, Zenon
<1>11. Held'
  <2>1. \A q \in Procs : (Holds(q)' <=> Holds(q)) /\ proc'[q].buf = proc[q].buf
    BY <1>2, Zenon DEF Holds
  <2>2. b \notin InUse /\ reader'.at = "queue" /\ reader'.buf = b /\ packetChan' = packetChan
    BY <1>2, <1>4, Zenon DEF InUse
  <2>3. reader.at # "queue"
    BY <1>2, Zenon
  <2> QED
    BY <1>3, <1>6, <2>1, <2>2, <2>3 DEF Held
<1>12. Stopping'
  BY <1>2, Zenon DEF IInv, Stopping
<1> QED
  BY <1>5, <1>6, <1>7, <1>8, <1>9, <1>10, <1>11, <1>12, Zenon DEF IInv

\* A connection goroutine reads a packet into a buffer of its own.
LEMMA ReadWSSStep ==
    ASSUME IInv, NEW t \in Transports, NEW k \in plan.packets, ReadWSS(t, k)
    PROVE  IInv'
<1>1. PICK b : b = Get
  BY Zenon
<1>2. /\ UNCHANGED <<edge, edges, edgesBySocket, wssConnections, conn, reader, packetChan,
                     shutdown, refreshed, registered, upgraded, handled, delivered, twice>>
      /\ proc[t].at = "read" /\ k.from = t /\ Sends(k)
      /\ buffer' = [buffer EXCEPT ![b] = k]
      /\ pool' = pool \ {b} /\ Goto(t, [Idle EXCEPT !.at = "got", !.buf = b])
  BY <1>1, Zenon DEF ReadWSS, tables, ends, history
<1>3. TypedIO /\ Held /\ t \in Procs /\ t \notin Workers
  BY ServiceAssumption, Zenon DEF IInv, Procs
<1>4. b \in pool /\ b \in Buffers
  <2>1. PICK f \in [Procs -> Buffers \cup {0}] :
          f[t] = reader.buf /\ \A p \in Procs : p # t => f[p] = proc[p].buf
    <3>1. [p \in Procs |-> IF p = t THEN reader.buf ELSE proc[p].buf]
            \in [Procs -> Buffers \cup {0}]
      BY <1>3, Zenon DEF TypedIO, ProcRecords
    <3> QED
      BY <1>3, <3>1, Zenon
  <2>2. ~Holds(t)
    BY <1>2, Zenon DEF Holds
  <2>3. \A c \in InUse : \/ \E i \in DOMAIN packetChan : packetChan[i] = c
                         \/ \E p \in Procs : f[p] = c
    BY <1>3, <2>1, <2>2 DEF Held
  <2>4. pool # {}
    BY <1>3, <2>3, PoolNotEmpty, Zenon
  <2> QED
    BY <1>1, <1>3, <2>4, Zenon DEF Get, TypedIO
<1>5. PICK c : c = [Idle EXCEPT !.at = "got", !.buf = b]
  BY Zenon
<1>6. c \in ProcRecords /\ c.at = "got" /\ c.buf = b
  BY <1>4, <1>5, Zenon DEF Idle, ProcRecords
<1>7. /\ proc'[t] = c /\ \A q \in Procs : q # t => proc'[q] = proc[q]
      /\ proc' \in [Procs -> ProcRecords]
  BY <1>2, <1>3, <1>5, <1>6, ProcFacts, Zenon
<1>8. /\ TypedClients' /\ TypedTables' /\ KnownKeys' /\ Members' /\ Grow /\ ObjectsStay
      /\ k \in Packets /\ k \notin received /\ k \notin plan'.packets
      /\ plan'.packets \subseteq plan.packets /\ received' = received \cup {k}
  BY <1>2, SendsFacts, Zenon
<1>9. Contents' /\ InUse' = InUse \cup {b} /\ buffer' \in [Buffers -> Packets \cup {None}]
  <2>1. \A q \in Procs :
          \/ proc'[q] = proc[q]
          \/ proc'[q].at = "got" /\ proc'[q].buf = b /\ (q \in Transports => k.from = q)
    BY <1>2, <1>6, <1>7, Zenon
  <2> QED
    BY <1>2, <1>4, <1>8, <2>1, ReadContents, Zenon
<1>10. TypedIO'
  BY <1>2, <1>3, <1>4, <1>7, <1>9, Zenon DEF TypedIO
<1>11. TypedConns'
  BY <1>2, Frames, Zenon
<1>12. Connected'
  <2>1. \A u \in Transports : \/ proc'[u].at = proc[u].at
                              \/ proc[u].at # "idle" /\ proc'[u].at # "delete"
    BY <1>2, <1>6, <1>7, Zenon DEF Procs
  <2> QED
    BY <1>2, <2>1, ConnectionsKept, Zenon
<1>13. Sending' /\ Delivered' /\ Once'
  <2>1. \A q \in Procs : \/ proc'[q] = proc[q]
                         \/ proc'[q].at # "send" /\ proc[q].at # "send"
    BY <1>2, <1>6, <1>7, Zenon
  <2> QED
    BY <1>2, <1>8, <2>1, NobodySends, Zenon
<1>14. Held'
  <2>1. /\ Holds(t)' /\ ~Holds(t) /\ proc'[t].buf = b
        /\ \A q \in Procs : q # t => (Holds(q)' <=> Holds(q)) /\ proc'[q].buf = proc[q].buf
    BY <1>2, <1>6, <1>7, Zenon DEF Holds
  <2>2. b \notin InUse /\ reader' = reader /\ packetChan' = packetChan
    BY <1>2, <1>4, Zenon DEF InUse
  <2>3. reader'.at = "queue" =>
         /\ reader'.buf \in InUse'
         /\ \A i \in DOMAIN packetChan' : packetChan'[i] # reader'.buf
         /\ \A p \in Procs : Holds(p)' => proc'[p].buf # reader'.buf
    BY <1>3, <1>9, <2>1, <2>2, Zenon DEF Held
  <2>4. \A i \in DOMAIN packetChan' :
         /\ packetChan'[i] \in InUse'
         /\ \A j \in DOMAIN packetChan' : packetChan'[i] = packetChan'[j] => i = j
         /\ \A p \in Procs : Holds(p)' => proc'[p].buf # packetChan'[i]
    BY <1>3, <1>9, <2>1, <2>2 DEF Held
  <2>5. \A p \in Procs : Holds(p)' =>
         /\ proc'[p].buf \in InUse'
         /\ \A q \in Procs \ {p} : Holds(q)' => proc'[q].buf # proc'[p].buf
    BY <1>3, <1>9, <2>1, <2>2 DEF Held
  <2>6. \A c1 \in InUse' : \/ reader'.at = "queue" /\ reader'.buf = c1
                           \/ \E i \in DOMAIN packetChan' : packetChan'[i] = c1
                           \/ \E p \in Procs : Holds(p)' /\ proc'[p].buf = c1
    BY <1>3, <1>9, <2>1, <2>2 DEF Held
  <2> QED
    BY <2>3, <2>4, <2>5, <2>6, Zenon DEF Held
<1>15. Stopping'
  <2>1. \A p \in Workers : proc'[p].at = "ended" <=> proc[p].at = "ended"
    BY <1>3, <1>7, Zenon DEF Procs
  <2> QED
    BY <1>2, <2>1, StoppingKept, Zenon
<1> QED
  BY <1>8, <1>9, <1>10, <1>11, <1>12, <1>13, <1>14, <1>15, Zenon DEF IInv

-----------------------------------------------------------------------------
(* WebSocket connections *)

\* A step of connections and of goroutines that process no packet.
LEMMA ConnectionStep ==
    ASSUME IInv, TypedConns', Connected', Quiet, proc' \in [Procs -> ProcRecords],
           UNCHANGED <<edge, edges, edgesBySocket, buffer, reader, packetChan, pool, shutdown,
                       plan, home, used, refreshed, registered, received, handled,
                       delivered, twice>>,
           \A p \in Workers : proc'[p] = proc[p]
    PROVE  IInv'
<1>1. Grow /\ ObjectsStay
  BY Zenon DEF Grow, ObjectsStay
<1>2. TypedIO'
  BY Zenon DEF IInv, TypedIO
<1>3. TypedClients' /\ TypedTables' /\ Held' /\ Contents' /\ KnownKeys' /\ Members'
  BY Frames, Zenon
<1>4. Sending' /\ Delivered' /\ Once'
  BY <1>1, NobodySends, Zenon DEF Quiet
<1>5. Stopping'
  BY StoppingKept, Zenon
<1> QED
  BY <1>2, <1>3, <1>4, <1>5, Zenon DEF IInv

\* A connection goroutine that processes no packet goes on.
LEMMA TransportGoes ==
    ASSUME IInv, NEW t \in Transports, NEW at \in {"read", "delete", "ended"},
           Goto(t, [Idle EXCEPT !.at = at]), proc[t].at \notin {"got", "send"}
    PROVE  /\ proc'[t].at = at /\ \A q \in Procs : q # t => proc'[q] = proc[q]
           /\ proc' \in [Procs -> ProcRecords] /\ Quiet
           /\ \A p \in Workers : proc'[p] = proc[p]
           /\ \A u \in Transports : u # t => proc'[u] = proc[u]
<1>1. PICK c : c = [Idle EXCEPT !.at = at]
  BY Zenon
<1>2. c \in ProcRecords /\ c.at = at
  BY <1>1, Zenon DEF Idle, ProcRecords
<1>3. TypedIO /\ t \in Procs /\ t \notin Workers
  BY ServiceAssumption, Zenon DEF IInv, Procs
<1>4. /\ proc'[t] = c /\ \A q \in Procs : q # t => proc'[q] = proc[q]
      /\ proc' \in [Procs -> ProcRecords]
  BY <1>1, <1>2, <1>3, ProcFacts, Zenon
<1>5. Quiet
  BY <1>2, <1>4, Zenon DEF Quiet
<1> QED
  BY <1>2, <1>3, <1>4, <1>5, Zenon DEF Procs

\* handleWSS enters a new connection in the table.
LEMMA UpgradeStep ==
    ASSUME IInv, NEW t \in Transports, Upgrade(t)
    PROVE  IInv'
<1>1. /\ UNCHANGED <<edge, edges, edgesBySocket, buffer, reader, packetChan, pool, shutdown,
                     plan, home, used, refreshed, registered, received, handled,
                     delivered, twice>>
      /\ conn[t] = "new" /\ conn' = [conn EXCEPT ![t] = "open"]
      /\ \A u \in Transports : ConnOf[u] = ConnOf[t] => conn[u] # "open"
      /\ wssConnections' = [wssConnections EXCEPT ![ConnOf[t]] = t]
      /\ Goto(t, [Idle EXCEPT !.at = "read"])
      /\ upgraded' = upgraded \cup {t}
  BY Zenon DEF Upgrade, TableWrite, tables, io, clients, history
<1>2. TypedConns /\ Connected
  BY Zenon DEF IInv
<1>3. proc[t].at = "idle"
  BY <1>1, <1>2, Zenon DEF Connected
<1>4. /\ proc'[t].at = "read" /\ proc' \in [Procs -> ProcRecords] /\ Quiet
      /\ \A p \in Workers : proc'[p] = proc[p]
      /\ \A u \in Transports : u # t => proc'[u] = proc[u]
  BY <1>1, <1>3, TransportGoes, Zenon
<1>5. TypedConns'
  BY <1>1, <1>2, ServiceAssumption, Zenon DEF TypedConns
<1>6. conn'[t] = "open" /\ \A u \in Transports : u # t => conn'[u] = conn[u]
  BY <1>1, <1>2, Zenon DEF TypedConns
<1>7. /\ ConnOf[t] \in Conns /\ wssConnections'[ConnOf[t]] = t
      /\ \A c \in Conns : c # ConnOf[t] => wssConnections'[c] = wssConnections[c]
  BY <1>1, <1>2, ServiceAssumption, Zenon DEF TypedConns
<1>8. Connected'
  <2>1. \A u \in Transports : conn'[u] # "new" => u \in upgraded'
    BY <1>1, <1>2, <1>6, Zenon DEF Connected
  <2>2. \A u \in Transports : conn'[u] = "new" => proc'[u].at = "idle"
    BY <1>2, <1>4, <1>6, Zenon DEF Connected
  <2>3. \A u \in Transports : proc'[u].at = "delete" => conn'[u] = "closed"
    BY <1>2, <1>4, <1>6, Zenon DEF Connected
  <2>4. t # None
    BY ServiceAssumption, Zenon
  <2>5. \A c \in Conns : wssConnections'[c] # None => ConnOf[wssConnections'[c]] = c
    BY <1>2, <1>7, Zenon DEF Connected
  <2>6. ASSUME NEW u \in Transports, conn'[u] = "open", OnlyConnection(u)'
        PROVE  wssConnections'[ConnOf[u]] = u
    <3>1. CASE u = t
      BY <1>7, <3>1, Zenon
    <3>2. CASE u # t
      <4>1. conn[u] = "open" /\ ConnOf[u] # ConnOf[t] /\ ConnOf[u] \in Conns
        BY <1>1, <1>6, <2>6, <3>2, ServiceAssumption, Zenon
      <4>2. OnlyConnection(u)
        BY <1>1, <2>6, Zenon DEF OnlyConnection
      <4> QED
        BY <1>2, <1>7, <4>1, <4>2, Zenon DEF Connected
    <3> QED
      BY <3>1, <3>2, Zenon
  <2> QED
    BY <2>1, <2>2, <2>3, <2>5, <2>6, Zenon DEF Connected
<1> QED
  BY <1>1, <1>4, <1>5, <1>8, ConnectionStep, Zenon

\* The read of a connection fails, and the connection is closed.
LEMMA ReadErrorStep ==
    ASSUME IInv, NEW t \in Transports, ReadError(t)
    PROVE  IInv'
<1>1. /\ UNCHANGED <<edge, edges, edgesBySocket, buffer, reader, packetChan, pool, shutdown,
                     plan, home, used, refreshed, registered, received, handled,
                     delivered, twice, wssConnections, upgraded>>
      /\ proc[t].at = "read" /\ conn[t] = "broken" /\ conn' = [conn EXCEPT ![t] = "closed"]
      /\ Goto(t, [Idle EXCEPT !.at = "delete"])
  BY Zenon DEF ReadError, tables, io, ends, clients, history
<1>2. TypedConns /\ Connected
  BY DEF IInv
<1>3. /\ proc'[t].at = "delete" /\ proc' \in [Procs -> ProcRecords] /\ Quiet
      /\ \A p \in Workers : proc'[p] = proc[p]
      /\ \A u \in Transports : u # t => proc'[u] = proc[u]
  BY <1>1, TransportGoes, Zenon
<1>4. TypedConns'
  BY <1>1, <1>2, Zenon DEF TypedConns
<1>5. conn'[t] = "closed" /\ \A u \in Transports : u # t => conn'[u] = conn[u]
  BY <1>1, <1>2, Zenon DEF TypedConns
<1>6. Connected'
  <2>1. \A u \in Transports : OnlyConnection(u)' <=> OnlyConnection(u)
    BY <1>1, Zenon DEF OnlyConnection
  <2> QED
    BY <1>1, <1>2, <1>3, <1>5, <2>1, Zenon DEF Connected
<1> QED
  BY <1>1, <1>3, <1>4, <1>6, ConnectionStep, Zenon

\* handleWSS takes the ID of a closed connection out of the table.
LEMMA DeleteConnectionStep ==
    ASSUME IInv, NEW t \in Transports, DeleteConnection(t)
    PROVE  IInv'
<1>1. /\ UNCHANGED <<edge, edges, edgesBySocket, buffer, reader, packetChan, pool, shutdown,
                     plan, home, used, refreshed, registered, received, handled,
                     delivered, twice, conn, upgraded>>
      /\ proc[t].at = "delete" /\ wssConnections' = [wssConnections EXCEPT ![ConnOf[t]] = None]
      /\ Goto(t, [Idle EXCEPT !.at = "ended"])
  BY Zenon DEF DeleteConnection, TableWrite, tables, io, ends, clients, history
<1>2. TypedConns /\ Connected
  BY DEF IInv
<1>3. /\ proc'[t].at = "ended" /\ proc' \in [Procs -> ProcRecords] /\ Quiet
      /\ \A p \in Workers : proc'[p] = proc[p]
      /\ \A u \in Transports : u # t => proc'[u] = proc[u]
  BY <1>1, TransportGoes, Zenon
<1>4. TypedConns'
  BY <1>1, <1>2, Zenon DEF TypedConns
<1>5. /\ wssConnections'[ConnOf[t]] = None /\ conn[t] = "closed"
      /\ \A c \in Conns : c # ConnOf[t] => wssConnections'[c] = wssConnections[c]
  BY <1>1, <1>2, ServiceAssumption, Zenon DEF TypedConns, Connected
<1>6. Connected'
  <2>1. \A u \in Transports : OnlyConnection(u)' <=> OnlyConnection(u)
    BY <1>1, Zenon DEF OnlyConnection
  <2>2. \A c \in Conns : wssConnections'[c] # None => ConnOf[wssConnections'[c]] = c
    BY <1>2, <1>5, Zenon DEF Connected
  <2>3. ASSUME NEW u \in Transports, conn[u] = "open", OnlyConnection(u)
        PROVE  wssConnections'[ConnOf[u]] = u
    <3>1. t \in upgraded
      BY <1>2, <1>5, Zenon DEF Connected
    <3>2. ConnOf[u] # ConnOf[t] /\ ConnOf[u] \in Conns
      BY <1>5, <2>3, <3>1, ServiceAssumption, Zenon DEF OnlyConnection
    <3> QED
      BY <1>2, <1>5, <2>3, <3>2, Zenon DEF Connected
  <2>4. \A u \in Transports : conn[u] = "new" => proc'[u].at = "idle"
    BY <1>2, <1>3, <1>5, Zenon DEF Connected
  <2>5. \A u \in Transports : proc'[u].at = "delete" => conn[u] = "closed"
    BY <1>2, <1>3, Zenon DEF Connected
  <2>6. \A u \in Transports : conn[u] # "new" => u \in upgraded
    BY <1>2, Zenon DEF Connected
  <2> QED
    BY <1>1, <2>1, <2>2, <2>3, <2>4, <2>5, <2>6, Zenon DEF Connected
<1> QED
  BY <1>1, <1>3, <1>4, <1>6, ConnectionStep, Zenon

\* A connection stalls or breaks.
LEMMA StallBreakStep ==
    ASSUME IInv, NEW t \in Transports, Stall(t) \/ Break(t)
    PROVE  IInv'
<1>1. /\ UNCHANGED <<edge, edges, edgesBySocket, buffer, reader, packetChan, pool, shutdown,
                     plan, home, used, refreshed, registered, received, handled,
                     delivered, twice, wssConnections, upgraded, proc>>
      /\ conn[t] \in {"open", "stuck"}
      /\ \E s \in {"stuck", "broken"} : conn' = [conn EXCEPT ![t] = s]
  BY Zenon DEF Stall, Break, tables, io, ends, clients, history
<1>2. PICK s \in {"stuck", "broken"} : conn' = [conn EXCEPT ![t] = s]
  BY <1>1, Zenon
<1>3. TypedConns /\ Connected /\ TypedIO
  BY Zenon DEF IInv
<1>4. TypedConns'
  BY <1>1, <1>2, <1>3, Zenon DEF TypedConns
<1>5. conn'[t] = s /\ \A u \in Transports : u # t => conn'[u] = conn[u]
  BY <1>2, <1>3, Zenon DEF TypedConns
<1>6. Connected'
  <2>1. \A u \in Transports : OnlyConnection(u)' <=> OnlyConnection(u)
    BY <1>1, Zenon DEF OnlyConnection
  <2>2. proc[t].at # "delete" /\ t \in upgraded
    BY <1>1, <1>3, Zenon DEF Connected
  <2> QED
    BY <1>1, <1>3, <1>5, <2>1, <2>2, Zenon DEF Connected
<1>7. Quiet /\ proc' \in [Procs -> ProcRecords]
  BY <1>1, <1>3, Zenon DEF Quiet, TypedIO
<1> QED
  BY <1>1, <1>4, <1>6, <1>7, ConnectionStep, Zenon

\* An edge gives up a packet it cannot send.
LEMMA UnsentStep ==
    ASSUME IInv, NEW k \in plan.packets, Unsent(k)
    PROVE  IInv'
<1>1. /\ UNCHANGED <<edge, edges, edgesBySocket, buffer, reader, packetChan, pool, shutdown,
                     home, used, refreshed, registered, received, handled,
                     delivered, twice, wssConnections, upgraded, proc, conn>>
      /\ plan' = [plan EXCEPT !.packets = @ \ {k}]
  BY Zenon DEF Unsent, tables, io, ends, history
<1>2. Grow /\ ObjectsStay /\ Quiet /\ TypedIO'
  BY <1>1, Zenon DEF Grow, ObjectsStay, Quiet, IInv, TypedIO
<1>3. TypedTables' /\ TypedConns' /\ Held' /\ KnownKeys' /\ Members'
  BY <1>1, <1>2, Frames, Zenon
<1>4. TypedClients' /\ plan'.packets = plan.packets \ {k}
  <2>1. PICK A, B, C : /\ plan \in [members : A, packets : SUBSET B, faults : C]
                       /\ A = UNION {[M -> Addrs] : M \in SUBSET Macs}
                       /\ B = Packets /\ C = SUBSET {"stall", "break", "signal"}
    BY Zenon DEF IInv, TypedClients
  <2>2. plan' \in [members : A, packets : SUBSET B, faults : C]
    BY <1>1, <2>1, Zenon
  <2>3. plan'.packets = plan.packets \ {k}
    BY <1>1, <2>1, Zenon
  <2> QED
    BY <1>1, <2>1, <2>2, <2>3, Zenon DEF IInv, TypedClients
<1>5. Contents'
  <2>1. \A q \in Procs : Holds(q)' <=> Holds(q)
    BY <1>1, Zenon DEF Holds
  <2>2. InUse' = InUse
    BY <1>1, Zenon DEF InUse
  <2>3. Contents /\ Transports \subseteq Procs
    BY Zenon DEF IInv, Procs
  <2> QED
    BY <1>1, <1>4, <2>1, <2>2, <2>3, Zenon DEF Contents
<1>6. Connected'
  BY <1>1, ConnectionsKept, Zenon
<1>7. Sending' /\ Delivered' /\ Once'
  BY <1>1, <1>2, NobodySends, Zenon
<1>8. Stopping'
  BY <1>1, StoppingKept, Zenon
<1> QED
  BY <1>2, <1>3, <1>4, <1>5, <1>6, <1>7, <1>8, Zenon DEF IInv

\* The steps that end the process, and the ones that change nothing.
LEMMA EndStep ==
    ASSUME IInv, Signal \/ ShutdownComplete \/ Exit \/ UNCHANGED vars
    PROVE  IInv'
<1>1. /\ UNCHANGED <<edge, edges, edgesBySocket, buffer, reader, packetChan, pool,
                     plan, home, used, refreshed, registered, received, handled,
                     delivered, twice, wssConnections, upgraded, proc, conn>>
      /\ \/ shutdown' \in {shutdown, "closed"}
         \/ shutdown' = "complete" /\ \A p \in Workers : proc[p].at = "ended"
  BY Zenon DEF Signal, ShutdownComplete, Exit, vars, tables, io, ends, clients, history
<1>2. Grow /\ ObjectsStay /\ Quiet /\ TypedIO'
  BY <1>1, Zenon DEF Grow, ObjectsStay, Quiet, IInv, TypedIO
<1>3. /\ TypedClients' /\ TypedTables' /\ TypedConns' /\ Held' /\ Contents' /\ KnownKeys'
      /\ Members'
  BY <1>1, <1>2, Frames, Zenon
<1>4. Connected'
  BY <1>1, ConnectionsKept, Zenon
<1>5. Sending' /\ Delivered' /\ Once'
  BY <1>1, <1>2, NobodySends, Zenon
<1>6. Stopping'
  BY <1>1, Zenon DEF IInv, Stopping
<1> QED
  BY <1>2, <1>3, <1>4, <1>5, <1>6, Zenon DEF IInv

-----------------------------------------------------------------------------
(* Handlers *)

\* The objects of members, and those of the other members of a community.
LEMMA ObjFacts ==
    ASSUME IInv, NEW m \in Macs, Known(m)
    PROVE  Obj(m) \in Objs /\ Obj(m)[1] = m /\ edge[Obj(m)] # None /\ edges[m] \in 1..MaxObjs
<1>1. edges[m] \in 0..MaxObjs /\ edges[m] # 0
  BY Zenon DEF IInv, TypedTables, Known
<1>2. edges[m] \in 1..MaxObjs
  BY <1>1, ServiceAssumption
<1> QED
  BY <1>2, Zenon DEF IInv, Members, Obj, Objs

\* The targets T that a handler may leave for its sends.
Targets(k, as, T) ==
    /\ T \subseteq Objs
    /\ \A o \in T : edge[o] # None /\ MayReach(o[1], k, as)
    /\ \A o, q \in T : o[1] = q[1] => o = q

\* A broadcast goes to the other members of the community.
LEMMA OthersFacts ==
    ASSUME IInv, NEW k \in Packets, NEW as, as = "raw" => k.kind = "data"
    PROVE  Targets(k, as, Others(k.src))
<1>1. ASSUME NEW o \in Others(k.src)
      PROVE  /\ o \in Objs /\ edge[o] # None /\ o = Obj(o[1]) /\ o[1] \in Macs
             /\ o[1] # k.src /\ CommunityOf[o[1]] = CommunityOf[k.src]
  <2>1. PICK n \in Macs : /\ n # k.src /\ Known(n) /\ CommunityOf[n] = CommunityOf[k.src]
                          /\ o = Obj(n)
    BY <1>1, Zenon DEF Others
  <2> QED
    BY <2>1, ObjFacts, Zenon
<1>2. \A o \in Others(k.src) : MayReach(o[1], k, as)
  BY <1>1, Zenon DEF MayReach
<1> QED
  BY <1>1, <1>2, Zenon DEF Targets

\* No target is wrong when there is none.
LEMMA NoTargets == ASSUME NEW k, NEW as PROVE Targets(k, as, {})
BY Zenon DEF Targets

\* A unicast goes to the object of its destination.
LEMMA OneTarget ==
    ASSUME IInv, NEW k \in Packets, k.kind \in {"data", "ping", "vfuze"}, Known(k.dst),
           Own(Key(k.from)) => CommunityOf[k.dst] = CommunityOf[k.src]
    PROVE  Targets(k, "raw", {Obj(k.dst)})
<1>1. k.dst \in Macs /\ k.dst # k.src
  BY Zenon DEF Packets
<1>2. Obj(k.dst) \in Objs /\ Obj(k.dst)[1] = k.dst /\ edge[Obj(k.dst)] # None
  BY <1>1, ObjFacts, Zenon
<1> QED
  BY <1>1, <1>2, Zenon DEF Targets, MayReach

\* The packet of a handler that begins.
LEMMA GotFacts ==
    ASSUME IInv, NEW p \in Procs, proc[p].at = "got", NEW k, k = buffer[proc[p].buf]
    PROVE  /\ k \in Packets /\ k \in received \ handled /\ proc[p].buf \in InUse
           /\ k.src \in Macs /\ k.from \in Addrs \cup Transports
           /\ Key(k.from) \in used[k.src] /\ Key(k.from) \in Keys
           /\ \A d \in delivered : d.pkt # k
<1>1. Holds(p) /\ Held /\ Contents /\ TypedClients /\ KnownKeys /\ Delivered
  BY Zenon DEF Holds, IInv
<1>2. proc[p].buf \in InUse
  BY <1>1, Zenon DEF Held
<1>3. k \in received \ handled
  BY <1>1, <1>2, Zenon DEF Contents
<1>4. k \in Packets
  BY <1>1, <1>3, Zenon DEF TypedClients
<1>5. k.src \in Macs /\ k.from \in Addrs \cup Transports
  BY <1>4, Zenon DEF Packets
<1>6. Key(k.from) \in used[k.src] /\ Key(k.from) \in Keys
  BY <1>1, <1>3, <1>5, KeyFacts, Zenon DEF KnownKeys
<1>7. ASSUME NEW q \in Procs, proc[q].at = "send" PROVE proc[q].msg # k
  <2>1. Holds(q) /\ q # p /\ proc[q].buf \in InUse /\ proc[q].msg = buffer[proc[q].buf]
    BY <1>1, <1>7, Zenon DEF Holds, Held, Contents
  <2>2. proc[q].buf # proc[p].buf
    BY <1>1, <2>1, Zenon DEF Held
  <2> QED
    BY <1>1, <1>2, <2>1, <2>2, Zenon DEF Contents
<1>8. \A d \in delivered : d.pkt # k
  BY <1>1, <1>3, <1>7, Zenon DEF Delivered
<1> QED
  BY <1>2, <1>3, <1>4, <1>5, <1>6, <1>8, Zenon

\* A goroutine that holds a buffer keeps it and its packet.
LEMMA StillHolds ==
    ASSUME IInv, NEW p \in Procs, proc[p].at \in {"got", "send"}, NEW c \in ProcRecords,
           c.at = "send", c.buf = proc[p].buf, c.msg = buffer[proc[p].buf], Goto(p, c),
           UNCHANGED <<reader, packetChan, buffer, pool, shutdown, plan, received, handled,
                       conn, wssConnections, upgraded>>
    PROVE  /\ TypedIO' /\ Held' /\ Contents' /\ Stopping' /\ Connected' /\ TypedConns'
           /\ proc'[p] = c /\ \A q \in Procs : q # p => proc'[q] = proc[q]
<1>1. TypedIO /\ Held /\ Contents
  BY Zenon DEF IInv
<1>2. /\ proc'[p] = c /\ \A q \in Procs : q # p => proc'[q] = proc[q]
      /\ proc' \in [Procs -> ProcRecords]
  BY <1>1, ProcFacts, Zenon
<1>3. \A q \in Procs : (Holds(q)' <=> Holds(q)) /\ proc'[q].buf = proc[q].buf
  BY <1>2, Zenon DEF Holds
<1>4. InUse' = InUse
  BY Zenon DEF InUse
<1>5. TypedIO'
  BY <1>1, <1>2, Zenon DEF TypedIO
<1>6. Held'
  BY <1>1, <1>3, <1>4 DEF Held
<1>7. Contents'
  <2>1. \A q \in Procs : proc'[q].at = "send" => proc'[q].msg = buffer[proc'[q].buf]
    BY <1>1, <1>2, Zenon DEF Contents
  <2>2. \A t \in Transports : Holds(t)' => buffer[proc'[t].buf].from = t
    BY <1>1, <1>3 DEF Contents, Procs
  <2> QED
    BY <1>1, <1>4, <2>1, <2>2, Zenon DEF Contents
<1>8. Stopping'
  <2>1. \A q \in Workers : proc'[q].at = "ended" <=> proc[q].at = "ended"
    BY <1>2, Zenon DEF Procs
  <2> QED
    BY <2>1, StoppingKept, Zenon
<1>9. Connected' /\ TypedConns'
  <2>1. \A t \in Transports : \/ proc'[t].at = proc[t].at
                              \/ proc[t].at # "idle" /\ proc'[t].at # "delete"
    BY <1>2, Zenon DEF Procs
  <2> QED
    BY <2>1, ConnectionsKept, Frames, Zenon
<1> QED
  BY <1>2, <1>5, <1>6, <1>7, <1>8, <1>9, Zenon

\* What a handler does to the goroutines: the step of Replies.
LEMMA RepliesFacts ==
    ASSUME IInv, NEW p \in Procs, proc[p].at = "got", NEW k, k = buffer[proc[p].buf],
           NEW answer, NEW todo, NEW fallback \in BOOLEAN, NEW as \in {"raw", "event", "answer"},
           Replies(p, answer, todo, fallback, as),
           answer \in used[k.src] \cup {None}, Targets(k, as, todo),
           as = "answer" => todo = {},
           fallback => as = "raw" /\ k.kind = "data",
           UNCHANGED <<reader, packetChan, buffer, pool, shutdown, plan, home, used, received,
                       handled, conn, wssConnections, upgraded, delivered, twice>>,
           ObjectsStay
    PROVE  /\ TypedIO' /\ Held' /\ Contents' /\ Stopping' /\ Connected' /\ TypedConns'
           /\ TypedClients' /\ Sending' /\ Delivered' /\ Once'
<1>1. /\ k \in Packets /\ k \in received \ handled /\ proc[p].buf \in InUse
      /\ k.src \in Macs /\ \A d \in delivered : d.pkt # k
  BY GotFacts, Zenon
<1>2. PICK c : c = [proc[p] EXCEPT !.at = "send", !.msg = k,
                      !.answer = answer, !.todo = todo, !.fallback = fallback, !.as = as]
  BY Zenon
<1>3. proc[p] \in ProcRecords /\ answer \in Keys \cup {None} /\ todo \subseteq Objs
  BY <1>1, Zenon DEF IInv, TypedIO, TypedClients, Targets
<1>4. /\ c \in ProcRecords /\ c.at = "send" /\ c.msg = k /\ c.buf = proc[p].buf
      /\ c.answer = answer /\ c.todo = todo /\ c.fallback = fallback /\ c.as = as
  BY <1>1, <1>2, <1>3, Zenon DEF ProcRecords
<1>5. Goto(p, c)
  BY <1>2, Zenon DEF Replies
<1>6. /\ TypedIO' /\ Held' /\ Contents' /\ Stopping' /\ Connected' /\ TypedConns'
      /\ proc'[p] = c /\ \A q \in Procs : q # p => proc'[q] = proc[q]
  BY <1>4, <1>5, StillHolds, Zenon
<1>7. TypedClients'
  BY Frames, Zenon
<1>8. Grow /\ TypedIO /\ Sending /\ Delivered /\ Once
  BY Zenon DEF Grow, IInv
<1>9. SendingAt(p)'
  <2>1. \A o \in todo : edge'[o] # None /\ as # "answer" /\ MayReach(o[1], k, as)'
    BY <1>8, MayReachLater, Zenon DEF Targets, ObjectsStay
  <2>2. \A o, q \in todo : o[1] = q[1] => o = q
    BY Zenon DEF Targets
  <2> QED
    BY <1>1, <1>4, <1>6, <2>1, <2>2, Zenon DEF SendingAt
<1>10. Sending'
  BY <1>6, <1>8, <1>9, OtherSends, Zenon DEF Sending
<1>11. Delivered'
  <2>1. \A d \in delivered : \/ d.pkt \in handled'
                             \/ \E q \in Procs : proc'[q].at = "send" /\ proc'[q].msg = d.pkt
    BY <1>6, <1>8, Zenon DEF Delivered
  <2> QED
    BY <1>8, <2>1, DeliveredLater, Zenon
<1>12. Once'
  <2>1. OnceAt(p)'
    BY <1>1, <1>4, <1>6, Zenon DEF OnceAt
  <2>2. \A q \in Procs : OnceAt(q)'
    BY <1>6, <1>8, <2>1, OtherSent, Zenon DEF Once
  <2> QED
    BY <1>8, <2>2, TwiceLater, Zenon
<1> QED
  BY <1>6, <1>7, <1>10, <1>11, <1>12, Zenon

\* Members, in terms of the next state's tables.
LEMMA MembersNext ==
    ASSUME UNCHANGED used,
           \A m \in Macs : Known(m)' =>
             /\ edge'[Obj(m)'] # None /\ registered'[m] # None
             /\ refreshed'[m] \in Addrs => edge'[Obj(m)'].addr = refreshed'[m]
             /\ registered'[m] \in Transports => edge'[Obj(m)'].wss = ConnOf[registered'[m]]
             /\ Own(Key(registered'[m])) => edgesBySocket'[Key(registered'[m])] = m
    PROVE  Members'
<1>1. \A key : Own(key)' <=> Own(key)
  BY Zenon DEF Own
<1>2. \A m \in Macs : Own(Key(registered[m]))' <=> Own(Key(registered'[m]))
  <2> SUFFICES ASSUME NEW m \in Macs
               PROVE  Own(Key(registered[m]))' <=> Own(Key(registered'[m]))
    BY Zenon
  <2>1. PICK key : key = Key(registered'[m])
    BY Zenon
  <2>2. Key(registered[m])' = key
    BY <2>1, Zenon DEF Key
  <2>3. Own(Key(registered[m]))' <=> Own(key)'
    BY <2>2, Zenon DEF Own
  <2> QED
    BY <1>1, <2>1, <2>3, Zenon
<1>3. \A m \in Macs : Key(registered[m])' = Key(registered'[m])
  BY Zenon DEF Key
<1> QED
  BY <1>2, <1>3, Zenon DEF Members

\* A registration stores record e, which has the socket it came from, in object
\* obj of the edge and indexes its keys.
LEMMA RegisterTables ==
    ASSUME IInv, NEW p \in Procs, proc[p].at = "got", NEW k, k = buffer[proc[p].buf],
           HandleRegister(p, k), UNCHANGED <<received, home, used>>
    PROVE  TypedTables' /\ KnownKeys' /\ Members' /\ ObjectsStay
<1>1. /\ k \in Packets /\ k.src \in Macs /\ k.from \in Addrs \cup Transports
      /\ Key(k.from) \in used[k.src] /\ Key(k.from) \in Keys
  BY GotFacts, Zenon
<1>2. PICK o \in IF Known(k.src) THEN {edges[k.src]} ELSE NewObj(k.src) :
        /\ edge' = [edge EXCEPT ![<<k.src, o>>] = Updated(edge[<<k.src, o>>], k.from)]
        /\ edges' = [edges EXCEPT ![k.src] = o]
        /\ edgesBySocket' = Indexed(k.src, Updated(edge[<<k.src, o>>], k.from))
  BY Zenon DEF HandleRegister
<1>3. /\ refreshed' = [refreshed EXCEPT ![k.src] = k.from]
      /\ registered' = [registered EXCEPT ![k.src] = k.from]
  BY Zenon DEF HandleRegister
<1>4. TypedTables /\ TypedClients /\ KnownKeys /\ Members
  BY Zenon DEF IInv
<1>5. o \in 1..MaxObjs
  BY <1>1, <1>2, ObjFacts, Zenon DEF NewObj
<1>6. PICK obj : obj = <<k.src, o>>
  BY Zenon
<1>7. obj \in Objs /\ obj[1] = k.src
  BY <1>1, <1>5, <1>6, Zenon DEF Objs
<1>8. PICK e : e = Updated(edge[obj], k.from)
  BY Zenon
<1>9. PICK old : old = IF edge[obj] = None THEN [addr |-> None, wss |-> None] ELSE edge[obj]
  BY Zenon
<1>10. /\ old \in EdgeRecords
       /\ old.addr \in used[k.src] \cup {None} /\ old.wss \in used[k.src] \cup {None}
  <2>1. edge[obj] \in EdgeRecords \cup {None}
    BY <1>4, <1>7, Zenon DEF TypedTables
  <2>2. CASE edge[obj] = None
    BY <1>9, <2>2, Zenon DEF EdgeRecords
  <2>3. CASE edge[obj] # None
    BY <1>4, <1>7, <1>9, <2>1, <2>3, Zenon DEF KnownKeys
  <2> QED
    BY <2>2, <2>3, Zenon
<1>11. e = IF k.from \in Addrs THEN [old EXCEPT !.addr = k.from]
                               ELSE [old EXCEPT !.wss = ConnOf[k.from]]
  BY <1>8, <1>9, Zenon DEF Updated
<1>12. /\ e \in EdgeRecords
       /\ e.addr \in used[k.src] \cup {None} /\ e.wss \in used[k.src] \cup {None}
       /\ k.from \in Addrs => e.addr = k.from
       /\ k.from \in Transports => e.wss = ConnOf[k.from]
  <2>1. CASE k.from \in Addrs
    <3>1. e.addr = k.from /\ e.wss = old.wss /\ e \in EdgeRecords
      BY <1>10, <1>11, <2>1, Zenon DEF EdgeRecords
    <3>2. k.from \in used[k.src] /\ k.from \notin Transports
      BY <1>1, <2>1, KeyFacts, ServiceAssumption, Zenon
    <3> QED
      BY <1>10, <3>1, <3>2, Zenon
  <2>2. CASE k.from \in Transports
    <3>1. k.from \notin Addrs /\ ConnOf[k.from] \in Conns /\ ConnOf[k.from] \in used[k.src]
      BY <1>1, <2>2, KeyFacts, ServiceAssumption, Zenon
    <3>2. e.wss = ConnOf[k.from] /\ e.addr = old.addr /\ e \in EdgeRecords
      BY <1>10, <1>11, <3>1, Zenon DEF EdgeRecords
    <3> QED
      BY <1>10, <3>1, <3>2, Zenon
  <2> QED
    BY <1>1, <2>1, <2>2, Zenon
<1>13. /\ edge'[obj] = e /\ \A q \in Objs : q # obj => edge'[q] = edge[q]
       /\ edge' \in [Objs -> EdgeRecords \cup {None}] /\ e # None
  <2>1. edge' = [edge EXCEPT ![obj] = e]
    BY <1>2, <1>6, <1>8, Zenon
  <2>2. e # None
    BY <1>12, ServiceAssumption, Zenon
  <2> QED
    BY <1>4, <1>7, <1>12, <2>1, <2>2, Zenon DEF TypedTables
<1>14. /\ edges'[k.src] = o /\ \A m \in Macs : m # k.src => edges'[m] = edges[m]
       /\ edges' \in [Macs -> 0..MaxObjs]
  <2>1. o \in 0..MaxObjs
    BY <1>5, ServiceAssumption
  <2> QED
    BY <1>1, <1>2, <1>4, <2>1, Zenon DEF TypedTables
<1>15. /\ \A key \in Keys \cup {None} :
            edgesBySocket'[key] = IF key = e.addr \/ (e.wss # None /\ key = e.wss)
                                  THEN k.src ELSE edgesBySocket[key]
       /\ edgesBySocket' \in [Keys \cup {None} -> Macs \cup {None}]
  <2>1. edgesBySocket' = [key \in DOMAIN edgesBySocket |->
                            IF key = e.addr \/ (e.wss # None /\ key = e.wss)
                            THEN k.src ELSE edgesBySocket[key]]
    BY <1>2, <1>6, <1>8, Zenon DEF Indexed
  <2> QED
    BY <1>1, <1>4, <2>1, Zenon DEF TypedTables
<1>16. /\ refreshed'[k.src] = k.from /\ registered'[k.src] = k.from
       /\ \A m \in Macs : m # k.src => /\ refreshed'[m] = refreshed[m]
                                       /\ registered'[m] = registered[m]
       /\ refreshed' \in [Macs -> Addrs \cup Transports \cup {None}]
       /\ registered' \in [Macs -> Addrs \cup Transports \cup {None}]
  BY <1>1, <1>3, <1>4, Zenon DEF TypedTables
<1>17. TypedTables'
  BY <1>13, <1>14, <1>15, <1>16, Zenon DEF TypedTables
<1>18. \A key \in Keys : edgesBySocket'[key] # edgesBySocket[key] =>
         key \in used[k.src] /\ edgesBySocket'[key] = k.src
  BY <1>12, <1>15, KeyFacts, Zenon
<1>19. KnownKeys'
  <2>1. \A q \in Objs : edge'[q] # None => /\ edge'[q].addr \in used[q[1]] \cup {None}
                                          /\ edge'[q].wss \in used[q[1]] \cup {None}
    <3> SUFFICES ASSUME NEW q \in Objs, edge'[q] # None
                 PROVE  /\ edge'[q].addr \in used[q[1]] \cup {None}
                        /\ edge'[q].wss \in used[q[1]] \cup {None}
      BY Zenon
    <3>1. CASE q = obj
      BY <1>7, <1>12, <1>13, <3>1, Zenon
    <3>2. CASE q # obj
      BY <1>4, <1>13, <3>2, Zenon DEF KnownKeys
    <3> QED
      BY <3>1, <3>2, Zenon
  <2>2. \A m \in Macs : registered'[m] # None => Key(registered'[m]) \in used[m]
    BY <1>1, <1>4, <1>16, Zenon DEF KnownKeys
  <2>3. \A key \in Keys : edgesBySocket'[key] # None => key \in used[edgesBySocket'[key]]
    BY <1>4, <1>18, Zenon DEF KnownKeys
  <2>4. /\ \A j \in received : Key(j.from) \in used[j.src]
        /\ \A m \in Macs : home[m] # None => Key(home[m]) \in used[m]
    BY <1>4, Zenon DEF KnownKeys
  <2> QED
    BY <2>1, <2>2, <2>3, <2>4, Zenon DEF KnownKeys, Key
<1>20. ASSUME NEW m \in Macs, Known(m)'
       PROVE  /\ edge'[Obj(m)'] # None /\ registered'[m] # None
              /\ refreshed'[m] \in Addrs => edge'[Obj(m)'].addr = refreshed'[m]
              /\ registered'[m] \in Transports => edge'[Obj(m)'].wss = ConnOf[registered'[m]]
              /\ Own(Key(registered'[m])) => edgesBySocket'[Key(registered'[m])] = m
  <2>1. CASE m = k.src
    <3>1. Obj(m)' = obj
      BY <1>6, <1>14, <2>1, Zenon DEF Obj
    <3>2. k.from # None
      BY <1>1, ServiceAssumption, Zenon
    <3>3. edgesBySocket'[Key(k.from)] = k.src
      <4>1. Key(k.from) # None
        BY <1>1, KeyFacts, Zenon
      <4>2. Key(k.from) = e.addr \/ Key(k.from) = e.wss
        BY <1>1, <1>12, KeyFacts, Zenon
      <4> QED
        BY <1>1, <1>15, <4>1, <4>2, Zenon
    <3> QED
      BY <1>12, <1>13, <1>16, <2>1, <3>1, <3>2, <3>3, Zenon
  <2>2. CASE m # k.src
    <3>1. Known(m) /\ Obj(m)' = Obj(m)
      BY <1>14, <1>20, <2>2, Zenon DEF Known, Obj
    <3>2. Obj(m) \in Objs /\ Obj(m)[1] = m
      BY <3>1, ObjFacts, Zenon
    <3>3. edge'[Obj(m)] = edge[Obj(m)]
      BY <1>7, <1>13, <2>2, <3>2, Zenon
    <3>4. registered'[m] = registered[m] /\ refreshed'[m] = refreshed[m]
      BY <1>16, <2>2, Zenon
    <3>5. registered[m] # None
      BY <1>4, <3>1, Zenon DEF Members
    <3>6. Key(registered[m]) \in used[m] /\ Key(registered[m]) \in Keys
      BY <1>4, <3>5, KeyFacts, Zenon DEF KnownKeys, TypedTables
    <3>7. Own(Key(registered[m])) => edgesBySocket'[Key(registered[m])] = m
      BY <1>1, <1>4, <1>18, <2>2, <3>1, <3>6, OwnsOne, Zenon DEF Members
    <3> QED
      BY <1>4, <3>1, <3>3, <3>4, <3>7, Zenon DEF Members
  <2> QED
    BY <2>1, <2>2, Zenon
<1>21. Members'
  BY <1>20, MembersNext, Zenon
<1>22. ObjectsStay
  BY <1>13, Zenon DEF ObjectsStay
<1> QED
  BY <1>17, <1>19, <1>21, <1>22, Zenon

\* A heartbeat stores an address in the object of a member.
LEMMA HeartbeatTables ==
    ASSUME IInv, NEW p \in Procs, proc[p].at = "got", NEW k, k = buffer[proc[p].buf],
           HandleHeartbeat(p, k), UNCHANGED <<received, home, used>>
    PROVE  TypedTables' /\ KnownKeys' /\ Members' /\ ObjectsStay
<1>1. /\ k \in Packets /\ k.src \in Macs /\ k.from \in Addrs \cup Transports
      /\ Key(k.from) \in used[k.src] /\ Key(k.from) \in Keys
  BY GotFacts
<1>2. PICK addr : addr = IF k.from \in Addrs THEN k.from ELSE None
  BY Zenon
<1>3. /\ Known(k.src) /\ edge' = [edge EXCEPT ![Obj(k.src)].addr = addr]
      /\ refreshed' = [refreshed EXCEPT ![k.src] = k.from]
      /\ UNCHANGED <<edges, edgesBySocket, registered>>
  BY <1>2, Zenon DEF HandleHeartbeat
<1>4. TypedTables /\ TypedClients /\ KnownKeys /\ Members
  BY Zenon DEF IInv
<1>5. PICK obj : obj = Obj(k.src)
  BY Zenon
<1>6. obj \in Objs /\ obj[1] = k.src /\ edge[obj] # None
  BY <1>1, <1>3, <1>5, ObjFacts, Zenon
<1>7. edge[obj] \in EdgeRecords
  BY <1>4, <1>6, Zenon DEF TypedTables
<1>8. PICK e : e = [edge[obj] EXCEPT !.addr = addr]
  BY Zenon
<1>9. addr \in used[k.src] \cup {None} /\ addr \in Addrs \cup {None}
  BY <1>1, <1>2, KeyFacts, Zenon
<1>10. e \in EdgeRecords /\ e.addr = addr /\ e.wss = edge[obj].wss /\ e # None
  <2>1. e \in EdgeRecords /\ e.addr = addr /\ e.wss = edge[obj].wss
    BY <1>7, <1>8, <1>9, Zenon DEF EdgeRecords
  <2> QED
    BY <2>1, ServiceAssumption, Zenon
<1>11. /\ edge'[obj] = e /\ \A q \in Objs : q # obj => edge'[q] = edge[q]
       /\ edge' \in [Objs -> EdgeRecords \cup {None}]
  <2>1. edge' = [edge EXCEPT ![obj] = e]
    BY <1>3, <1>4, <1>5, <1>6, <1>8, Zenon DEF TypedTables
  <2> QED
    BY <1>4, <1>6, <1>10, <2>1, Zenon DEF TypedTables
<1>12. /\ refreshed'[k.src] = k.from
       /\ \A m \in Macs : m # k.src => refreshed'[m] = refreshed[m]
       /\ refreshed' \in [Macs -> Addrs \cup Transports \cup {None}]
  BY <1>1, <1>3, <1>4, Zenon DEF TypedTables
<1>13. TypedTables'
  BY <1>3, <1>4, <1>11, <1>12, Zenon DEF TypedTables
<1>14. KnownKeys'
  <2>1. ASSUME NEW q \in Objs, edge'[q] # None
        PROVE  /\ edge'[q].addr \in used[q[1]] \cup {None}
               /\ edge'[q].wss \in used[q[1]] \cup {None}
    <3>1. CASE q = obj
      <4>1. edge[obj].wss \in used[k.src] \cup {None}
        BY <1>4, <1>6, Zenon DEF KnownKeys
      <4> QED
        BY <1>6, <1>9, <1>10, <1>11, <3>1, <4>1, Zenon
    <3>2. CASE q # obj
      BY <1>4, <1>11, <2>1, <3>2, Zenon DEF KnownKeys
    <3> QED
      BY <3>1, <3>2, Zenon
  <2> QED
    BY <1>3, <1>4, <2>1, Zenon DEF KnownKeys, Key
<1>15. Members'
  <2>1. ASSUME NEW m \in Macs, Known(m)'
        PROVE  /\ edge'[Obj(m)'] # None /\ registered'[m] # None
               /\ refreshed'[m] \in Addrs => edge'[Obj(m)'].addr = refreshed'[m]
               /\ registered'[m] \in Transports => edge'[Obj(m)'].wss = ConnOf[registered'[m]]
               /\ Own(Key(registered'[m])) => edgesBySocket'[Key(registered'[m])] = m
    <3>1. Known(m) /\ Obj(m)' = Obj(m) /\ registered' = registered
      BY <1>3, <2>1, Zenon DEF Known, Obj
    <3>2. CASE m = k.src
      <4>1. edge'[Obj(m)'] = e
        BY <1>5, <1>11, <3>1, <3>2, Zenon
      <4>2. refreshed'[m] \in Addrs => e.addr = refreshed'[m]
        BY <1>2, <1>10, <1>12, <3>2, Zenon
      <4>3. registered[m] \in Transports => e.wss = ConnOf[registered[m]]
        BY <1>4, <1>5, <1>10, <3>1, <3>2, Zenon DEF Members
      <4> QED
        BY <1>3, <1>4, <1>10, <3>1, <4>1, <4>2, <4>3, Zenon DEF Members
    <3>3. CASE m # k.src
      <4>1. Obj(m) \in Objs /\ Obj(m)[1] = m
        BY <3>1, ObjFacts, Zenon
      <4>2. edge'[Obj(m)] = edge[Obj(m)] /\ refreshed'[m] = refreshed[m]
        BY <1>6, <1>11, <1>12, <3>3, <4>1, Zenon
      <4> QED
        BY <1>3, <1>4, <3>1, <4>2, Zenon DEF Members
    <3> QED
      BY <3>2, <3>3, Zenon
  <2> QED
    BY <2>1, MembersNext, Zenon
<1>16. ObjectsStay
  BY <1>10, <1>11, Zenon DEF ObjectsStay
<1> QED
  BY <1>13, <1>14, <1>15, <1>16, Zenon

\* An edge that leaves takes only its own address out of the index.
LEMMA UnregisterTables ==
    ASSUME IInv, NEW p \in Procs, proc[p].at = "got", NEW k, k = buffer[proc[p].buf],
           HandleUnregister(p, k), UNCHANGED <<received, home, used>>
    PROVE  TypedTables' /\ KnownKeys' /\ Members' /\ ObjectsStay
<1>1. k \in Packets /\ k.src \in Macs
  BY GotFacts, Zenon
<1>2. PICK addr : addr = edge[Obj(k.src)].addr
  BY Zenon
<1>3. /\ Known(k.src) /\ edges' = [edges EXCEPT ![k.src] = 0]
      /\ edgesBySocket' = [edgesBySocket EXCEPT ![addr] = None]
      /\ UNCHANGED <<edge, refreshed, registered>>
  BY <1>2, Zenon DEF HandleUnregister, history
<1>4. TypedTables /\ TypedClients /\ KnownKeys /\ Members
  BY DEF IInv
<1>5. addr \in used[k.src] \cup {None} /\ addr \in Keys \cup {None}
  <2>1. Obj(k.src) \in Objs /\ Obj(k.src)[1] = k.src /\ edge[Obj(k.src)] # None
    BY <1>1, <1>3, ObjFacts, Zenon
  <2>2. addr \in used[k.src] \cup {None}
    BY <1>2, <1>4, <2>1, Zenon DEF KnownKeys
  <2> QED
    BY <1>1, <1>4, <2>2, Zenon DEF TypedClients
<1>6. /\ edgesBySocket'[addr] = None
      /\ \A key \in Keys \cup {None} : key # addr => edgesBySocket'[key] = edgesBySocket[key]
      /\ edgesBySocket' \in [Keys \cup {None} -> Macs \cup {None}]
  BY <1>3, <1>4, <1>5, Zenon DEF TypedTables
<1>7. /\ edges'[k.src] = 0 /\ \A m \in Macs : m # k.src => edges'[m] = edges[m]
      /\ edges' \in [Macs -> 0..MaxObjs]
  <2>1. 0 \in 0..MaxObjs
    BY ServiceAssumption
  <2> QED
    BY <1>1, <1>3, <1>4, <2>1, Zenon DEF TypedTables
<1>8. TypedTables'
  BY <1>3, <1>4, <1>6, <1>7, Zenon DEF TypedTables
<1>9. KnownKeys'
  <2>1. \A key \in Keys : edgesBySocket'[key] # None => key \in used[edgesBySocket'[key]]
    BY <1>4, <1>6, Zenon DEF KnownKeys
  <2> QED
    BY <1>3, <1>4, <2>1, Zenon DEF KnownKeys, Key
<1>10. Members'
  <2>1. ASSUME NEW m \in Macs, Known(m)'
        PROVE  /\ edge'[Obj(m)'] # None /\ registered'[m] # None
               /\ refreshed'[m] \in Addrs => edge'[Obj(m)'].addr = refreshed'[m]
               /\ registered'[m] \in Transports => edge'[Obj(m)'].wss = ConnOf[registered'[m]]
               /\ Own(Key(registered'[m])) => edgesBySocket'[Key(registered'[m])] = m
    <3>1. m # k.src /\ Known(m) /\ Obj(m)' = Obj(m)
      BY <1>7, <2>1, Zenon DEF Known, Obj
    <3>2. registered[m] # None
      BY <1>4, <3>1, Zenon DEF Members
    <3>3. Key(registered[m]) \in used[m] /\ Key(registered[m]) \in Keys
      BY <1>4, <3>2, KeyFacts, Zenon DEF KnownKeys, TypedTables
    <3>4. ASSUME Own(Key(registered[m])) PROVE edgesBySocket'[Key(registered[m])] = m
      <4>1. Key(registered[m]) # addr
        BY <1>1, <1>5, <3>1, <3>3, <3>4, OwnsOne, KeyFacts, Zenon
      <4> QED
        BY <1>4, <1>6, <3>1, <3>3, <3>4, <4>1, Zenon DEF Members
    <3> QED
      BY <1>3, <1>4, <3>1, <3>4, Zenon DEF Members
  <2> QED
    BY <2>1, MembersNext
<1>11. ObjectsStay
  BY <1>3, Zenon DEF ObjectsStay
<1> QED
  BY <1>8, <1>9, <1>10, <1>11

\* Every handler updates the tables and leaves its targets to be sent to.
LEMMA ProcessPacketStep ==
    ASSUME IInv, NEW p \in Procs, ProcessPacket(p)
    PROVE  IInv'
<1>1. PICK k : k = buffer[proc[p].buf]
  BY Zenon
<1>2. /\ proc[p].at = "got"
      /\ UNCHANGED <<reader, packetChan, buffer, pool, shutdown, plan, home, used, received,
                     handled, conn, wssConnections, upgraded, delivered, twice>>
  BY Zenon DEF ProcessPacket, io, ends, clients
<1>3. /\ k \in Packets /\ k.src \in Macs /\ k.from \in Addrs \cup Transports
      /\ Key(k.from) \in used[k.src] /\ Key(k.from) \in Keys
  BY <1>1, <1>2, GotFacts, Zenon
<1>4. TypedTables /\ KnownKeys /\ Members
  BY Zenon DEF IInv
<1> DEFINE Rest == /\ TypedIO' /\ Held' /\ Contents' /\ Stopping' /\ Connected' /\ TypedConns'
                   /\ TypedClients' /\ Sending' /\ Delivered' /\ Once'
           Kept == UNCHANGED <<edge, edges, edgesBySocket, refreshed, registered>>
<1>5. ASSUME Kept PROVE TypedTables' /\ KnownKeys' /\ Members' /\ ObjectsStay
  BY <1>2, <1>5, Frames, Zenon DEF ObjectsStay
<1>6. ASSUME NEW answer, NEW todo, NEW fallback \in BOOLEAN,
             NEW as \in {"raw", "event", "answer"},
             Replies(p, answer, todo, fallback, as),
             answer \in used[k.src] \cup {None}, Targets(k, as, todo),
             as = "answer" => todo = {}, fallback => as = "raw" /\ k.kind = "data",
             ObjectsStay
      PROVE  Rest
  BY <1>1, <1>2, <1>6, RepliesFacts, Zenon
<1>7. \A as : Targets(k, as, {})
  BY NoTargets, Zenon
<1>8. Targets(k, "event", Others(k.src)) /\ (k.kind = "data" => Targets(k, "raw", Others(k.src)))
  BY <1>3, OthersFacts, Zenon
<1> HIDE DEF Rest
<1>9. ASSUME Unknown(p, k) PROVE Rest /\ Kept
  <2>1. /\ Kept
        /\ Replies(p, IF k.from \in Addrs THEN k.from ELSE None, {}, FALSE, "answer")
    BY <1>9, Zenon DEF Unknown, tables, history
  <2>2. (IF k.from \in Addrs THEN k.from ELSE None) \in used[k.src] \cup {None}
    BY <1>3, KeyFacts, Zenon
  <2> QED
    BY <1>5, <1>6, <1>7, <2>1, <2>2, Zenon
<1>10. ASSUME HandleData(p, k) PROVE Rest /\ Kept
  <2>1. Kept /\ k.kind = "data"
    BY <1>10, Zenon DEF HandleData, tables, history
  <2>2. CASE Known(k.dst) /\ CommunityOf[k.dst] = CommunityOf[k.src]
    <3>1. Replies(p, None, {Obj(k.dst)}, TRUE, "raw")
      BY <1>10, <2>2, Zenon DEF HandleData
    <3>2. Targets(k, "raw", {Obj(k.dst)})
      BY <1>3, <2>1, <2>2, OneTarget, Zenon
    <3> QED
      BY <1>5, <1>6, <2>1, <3>1, <3>2, Zenon
  <2>3. CASE ~(Known(k.dst) /\ CommunityOf[k.dst] = CommunityOf[k.src])
    <3>1. Replies(p, None, Others(k.src), FALSE, "raw")
      BY <1>10, <2>3, Zenon DEF HandleData
    <3> QED
      BY <1>5, <1>6, <1>8, <2>1, <3>1, Zenon
  <2> QED
    BY <2>2, <2>3, Zenon
<1>11. ASSUME HandlePing(p, k) PROVE Rest /\ Kept
  <2>1. PICK T : T = {Obj(m) : m \in {x \in {k.dst} :
                        Known(x) /\ CommunityOf[x] = CommunityOf[k.src]}}
    BY Zenon
  <2>2. Kept /\ k.kind = "ping" /\ Replies(p, None, T, FALSE, "raw")
    BY <1>11, <2>1, Zenon DEF HandlePing, tables, history
  <2>3. Targets(k, "raw", T)
    <3>1. CASE Known(k.dst) /\ CommunityOf[k.dst] = CommunityOf[k.src]
      <4>1. T = {Obj(k.dst)}
        BY <2>1, <3>1, Zenon
      <4> QED
        BY <1>3, <2>2, <3>1, <4>1, OneTarget, Zenon
    <3>2. CASE ~(Known(k.dst) /\ CommunityOf[k.dst] = CommunityOf[k.src])
      <4>1. T = {}
        BY <2>1, <3>2, Zenon
      <4> QED
        BY <1>7, <4>1, Zenon
    <3> QED
      BY <3>1, <3>2, Zenon
  <2> QED
    BY <1>5, <1>6, <2>2, <2>3, Zenon
<1>12. ASSUME HandleVFuze(p, k) PROVE Rest /\ Kept
  <2>1. PICK src : src = edgesBySocket[Key(k.from)]
    BY Zenon
  <2>2. PICK T : T = IF src # None /\ Known(k.dst) /\ CommunityOf[src] = CommunityOf[k.dst]
                     THEN {Obj(k.dst)} ELSE {}
    BY Zenon
  <2>3. Kept /\ k.kind = "vfuze" /\ Replies(p, None, T, FALSE, "raw")
    BY <1>12, <2>1, <2>2, Zenon DEF HandleVFuze, tables, history
  <2>4. Targets(k, "raw", T)
    <3>1. CASE src # None /\ Known(k.dst) /\ CommunityOf[src] = CommunityOf[k.dst]
      <4>1. src \in Macs /\ Key(k.from) \in used[src]
        BY <1>3, <1>4, <2>1, <3>1, Zenon DEF TypedTables, KnownKeys
      <4>2. Own(Key(k.from)) => src = k.src
        BY <1>3, <4>1, OwnsOne, Zenon
      <4>3. Own(Key(k.from)) => CommunityOf[k.dst] = CommunityOf[k.src]
        BY <3>1, <4>2, Zenon
      <4>4. T = {Obj(k.dst)}
        BY <2>2, <3>1, Zenon
      <4> QED
        BY <1>3, <2>3, <3>1, <4>3, <4>4, OneTarget, Zenon
    <3>2. CASE ~(src # None /\ Known(k.dst) /\ CommunityOf[src] = CommunityOf[k.dst])
      BY <1>7, <2>2, <3>2, Zenon
    <3> QED
      BY <3>1, <3>2, Zenon
  <2> QED
    BY <1>5, <1>6, <2>3, <2>4, Zenon
<1>13. ASSUME HandleRequest(p, k) PROVE Rest /\ Kept
  <2>1. PICK e : e = edge[Obj(k.src)]
    BY Zenon
  <2>2. /\ Kept /\ Known(k.src)
        /\ Replies(p, IF e.wss # None THEN e.wss ELSE e.addr, {}, FALSE, "answer")
    BY <1>13, <2>1, Zenon DEF HandleRequest, tables, history
  <2>3. Obj(k.src) \in Objs /\ Obj(k.src)[1] = k.src /\ e # None
    BY <1>3, <2>1, <2>2, ObjFacts, Zenon
  <2>4. (IF e.wss # None THEN e.wss ELSE e.addr) \in used[k.src] \cup {None}
    BY <1>4, <2>1, <2>3, Zenon DEF KnownKeys
  <2> QED
    BY <1>5, <1>6, <1>7, <2>2, <2>4, Zenon
<1>14. ASSUME HandleSNPublicSecret(p, k) PROVE Rest /\ Kept
  <2>1. Kept /\ Replies(p, Key(k.from), {}, FALSE, "answer")
    BY <1>14, Zenon DEF HandleSNPublicSecret, tables, history
  <2> QED
    BY <1>3, <1>5, <1>6, <1>7, <2>1, Zenon
<1>15. ASSUME RegisterFails(p, k) PROVE Rest /\ Kept
  <2>1. Kept /\ Replies(p, Key(k.from), {}, FALSE, "event")
    BY <1>15, Zenon DEF RegisterFails, tables, history
  <2> QED
    BY <1>3, <1>5, <1>6, <1>7, <2>1, Zenon
<1>16. ASSUME HandleRegister(p, k) PROVE Rest /\ TypedTables' /\ KnownKeys' /\ Members'
  <2>1. Replies(p, Key(k.from), Others(k.src), FALSE, "event")
    BY <1>16, Zenon DEF HandleRegister
  <2>2. TypedTables' /\ KnownKeys' /\ Members' /\ ObjectsStay
    BY <1>1, <1>2, <1>16, RegisterTables, Zenon
  <2> QED
    BY <1>3, <1>6, <1>8, <2>1, <2>2, Zenon
<1>17. ASSUME HandleHeartbeat(p, k) PROVE Rest /\ TypedTables' /\ KnownKeys' /\ Members'
  <2>1. PICK T \in {Others(k.src), {}} : Replies(p, None, T, FALSE, "event")
    BY <1>17, Zenon DEF HandleHeartbeat
  <2>2. TypedTables' /\ KnownKeys' /\ Members' /\ ObjectsStay
    BY <1>1, <1>2, <1>17, HeartbeatTables, Zenon
  <2>3. Targets(k, "event", T)
    BY <1>7, <1>8, <2>1, Zenon
  <2> QED
    BY <1>6, <2>1, <2>2, <2>3, Zenon
<1>18. ASSUME HandleUnregister(p, k) PROVE Rest /\ TypedTables' /\ KnownKeys' /\ Members'
  <2>1. Replies(p, None, Others(k.src), FALSE, "event")
    BY <1>18, Zenon DEF HandleUnregister
  <2>2. TypedTables' /\ KnownKeys' /\ Members' /\ ObjectsStay
    BY <1>1, <1>2, <1>18, UnregisterTables
  <2> QED
    BY <1>6, <1>8, <2>1, <2>2, Zenon
<1>19. Rest /\ TypedTables' /\ KnownKeys' /\ Members'
  <2>1. \/ Unknown(p, k) \/ HandleData(p, k) \/ HandlePing(p, k) \/ HandleVFuze(p, k)
        \/ HandleRequest(p, k) \/ HandleSNPublicSecret(p, k) \/ HandleRegister(p, k)
        \/ RegisterFails(p, k) \/ HandleHeartbeat(p, k) \/ HandleUnregister(p, k)
    BY <1>1, Zenon DEF ProcessPacket
  <2> QED
    BY <1>5, <1>9, <1>10, <1>11, <1>12, <1>13, <1>14, <1>15, <1>16, <1>17, <1>18,
       <2>1, Zenon
<1> QED
  BY <1>19, Zenon DEF Rest, IInv

-----------------------------------------------------------------------------
(* Sending *)

\* What packet k, sent to address key, adds to the deliveries.
Adds(k, key, as) ==
    /\ delivered \subseteq delivered'
    /\ \A d \in delivered' :
         \/ d \in delivered
         \/ /\ d.pkt = k /\ d.raw = k /\ d.as = as /\ d.key = key
            /\ d.to \in Macs /\ key \in used[d.to] /\ key # None
    /\ \A keys \in twice' :
         \/ keys \in twice
         \/ \E d \in delivered : /\ keys[1] = d.key /\ keys[2] = key
                                 /\ d.pkt = k /\ d.as = as /\ key \in used[d.to]

\* Address key is one that packet k may go to.
Reaches(k, key, as) ==
    key # None =>
      /\ as = "answer" => key \in used[k.src]
      /\ as # "answer" => \E r \in Macs : key \in used[r] /\ MayReach(r, k, as)

\* Packet k did not yet go to the edge at address key.
NotYet(k, key, as) ==
    \A d \in delivered : d.pkt = k /\ d.as = as /\ key \in used[d.to] =>
                           ~(Own(d.key) /\ Own(key))

\* State c of a goroutine that is sending k and answers no more.
GoesOn(p, k, c) ==
    /\ c \in ProcRecords /\ c.at = "send" /\ c.buf = proc[p].buf /\ c.msg = k
    /\ c.answer = None /\ Targets(k, c.as, c.todo)
    /\ c.as = "answer" => c.todo = {}
    /\ c.fallback => c.as = "raw" /\ k.kind = "data"
    /\ \A d \in delivered' : d.pkt = k =>
         /\ c.fallback => d.as # c.as
         /\ Own(d.key) /\ d.as = c.as => \A o \in c.todo : d.to # o[1]

\* Whether or not a send succeeds, it adds at most one delivery, to a user of its key.
LEMMA SentFacts ==
    ASSUME IInv, NEW p \in Procs, proc[p].at = "send", NEW key \in Keys \cup {None}, NEW as,
           SentTo(p, key, as) \/ NotSentTo(key), NEW k, k = proc[p].msg
    PROVE  Adds(k, key, as)
<1>1. CASE UNCHANGED <<delivered, twice>>
  BY <1>1, Zenon DEF Adds
<1>2. ASSUME NEW s \in Addrs \cup Transports, Key(s) = key, Deliver(p, s, as)
      PROVE  Adds(k, key, as)
  <2>1. PICK new : new = {[pkt |-> proc[p].msg, as |-> as, to |-> m, key |-> Key(s),
                           raw |-> IF as = "raw" THEN buffer[proc[p].buf] ELSE proc[p].msg] :
                           m \in {n \in Macs : home[n] = s}}
    BY Zenon
  <2>2. /\ delivered' = delivered \cup new
        /\ twice' = twice \cup {<<d.key, Key(s)>> : d \in {x \in delivered : \E n \in new :
                                  x.pkt = n.pkt /\ x.as = n.as /\ x.to = n.to}}
    BY <1>2, <2>1, Zenon DEF Deliver
  <2>3. buffer[proc[p].buf] = proc[p].msg
    BY Zenon DEF IInv, Contents
  <2>4. \A m \in Macs : home[m] = s => key \in used[m]
    <3>1. s # None
      BY ServiceAssumption, Zenon
    <3> QED
      BY <1>2, <3>1, Zenon DEF IInv, KnownKeys
  <2>5. key # None
    BY <1>2, KeyFacts, Zenon
  <2>6. ASSUME NEW d \in new
        PROVE  /\ d.pkt = k /\ d.raw = k /\ d.as = as
               /\ d.key = key /\ d.to \in Macs /\ key \in used[d.to]
    <3>1. PICK m \in Macs :
            /\ home[m] = s
            /\ d = [pkt |-> proc[p].msg, as |-> as, to |-> m, key |-> Key(s),
                    raw |-> IF as = "raw" THEN buffer[proc[p].buf] ELSE proc[p].msg]
      BY <2>1, <2>6, Zenon
    <3>2. d.pkt = k /\ d.as = as /\ d.key = key /\ d.to = m /\ d.raw = k
      BY <1>2, <2>3, <3>1, Zenon
    <3> QED
      BY <2>4, <3>1, <3>2, Zenon
  <2>7. ASSUME NEW keys \in twice', keys \notin twice
        PROVE  \E d \in delivered : /\ keys[1] = d.key /\ keys[2] = key
                                    /\ d.pkt = k /\ d.as = as /\ key \in used[d.to]
    <3>1. PICK d \in delivered : /\ keys = <<d.key, Key(s)>>
                                 /\ \E n \in new : d.pkt = n.pkt /\ d.as = n.as /\ d.to = n.to
      BY <2>2, <2>7, Zenon
    <3>2. PICK n \in new : d.pkt = n.pkt /\ d.as = n.as /\ d.to = n.to
      BY <3>1, Zenon
    <3>3. keys[1] = d.key /\ keys[2] = key
      BY <1>2, <3>1, Zenon
    <3>4. d.pkt = k /\ d.as = as /\ key \in used[d.to]
      BY <2>6, <3>2, Zenon
    <3> QED
      BY <3>3, <3>4, Zenon
  <2> QED
    BY <2>2, <2>5, <2>6, <2>7, Zenon DEF Adds
<1>3. CASE NotSentTo(key)
  BY <1>1, <1>3, Zenon DEF NotSentTo, WriteFails, Lost
<1>4. CASE SentTo(p, key, as)
  <2>1. CASE key \in Conns
    <3>1. PICK t : t = wssConnections[key]
      BY Zenon
    <3>2. t # None /\ Written(p, t, as)
      BY <1>4, <2>1, <3>1, Zenon DEF SentTo
    <3>3. t \in Transports /\ ConnOf[t] = key
      BY <2>1, <3>1, <3>2, Zenon DEF IInv, TypedConns, Connected
    <3>4. Key(t) = key
      BY <3>3, KeyFacts, Zenon
    <3>5. CASE Deliver(p, t, as)
      BY <1>2, <3>3, <3>4, <3>5, Zenon
    <3>6. CASE Lost
      BY <1>1, <3>6, Zenon DEF Lost
    <3> QED
      BY <3>2, <3>5, <3>6, Zenon DEF Written
  <2>2. CASE key \notin Conns
    <3>1. key \in Addrs /\ Deliver(p, key, as)
      BY <1>4, <2>2, Zenon DEF SentTo, Keys
    <3> QED
      BY <1>2, <3>1, KeyFacts, Zenon
  <2> QED
    BY <2>1, <2>2, Zenon
<1> QED
  BY <1>3, <1>4, Zenon

\* A handler sends to address key and goes on in state c.
LEMMA SendStep ==
    ASSUME IInv, NEW p \in Procs, proc[p].at = "send", NEW k, k = proc[p].msg,
           NEW key, NEW as, Adds(k, key, as), Reaches(k, key, as), NotYet(k, key, as),
           NEW c, Goto(p, c), GoesOn(p, k, c),
           UNCHANGED <<edge, edges, edgesBySocket, buffer, reader, packetChan, pool, shutdown,
                       plan, home, used, refreshed, registered, received, handled,
                       wssConnections, upgraded, conn>>
    PROVE  IInv'
<1>1. /\ TypedIO /\ Held /\ Contents /\ Sending /\ Delivered /\ Once /\ Grow /\ ObjectsStay
      /\ k \in Packets
  BY Zenon DEF IInv, Grow, ObjectsStay, Sending, SendingAt
<1>2. k = buffer[proc[p].buf]
  BY <1>1, Zenon DEF Contents
<1>3. /\ TypedIO' /\ Held' /\ Contents' /\ Stopping' /\ Connected' /\ TypedConns'
      /\ proc'[p] = c /\ \A q \in Procs : q # p => proc'[q] = proc[q]
  BY <1>2, StillHolds, Zenon DEF GoesOn
<1>4. TypedClients' /\ TypedTables' /\ KnownKeys' /\ Members'
  BY Frames, Zenon
<1>5. \A d \in delivered' : \/ d \in delivered
                            \/ /\ d.pkt = k /\ d.raw = k /\ d.as = as /\ d.key = key
                               /\ d.to \in Macs /\ key \in used[d.to] /\ key # None
  BY Zenon DEF Adds
<1>6. \A x : Own(x)' <=> Own(x)
  BY Zenon DEF Own
<1>7. \A r, j, a : MayReach(r, j, a) => MayReach(r, j, a)'
  BY <1>1, MayReachLater, Zenon
<1>8. Sending'
  <2>1. SendingAt(p)'
    BY <1>1, <1>3, <1>7, Zenon DEF SendingAt, Targets, GoesOn
  <2> QED
    BY <1>1, <1>3, <2>1, OtherSends, Zenon DEF Sending
<1>9. Delivered'
  <2> SUFFICES ASSUME NEW d \in delivered'
               PROVE  /\ d.raw = d.pkt /\ d.to \in Macs /\ d.key \in used[d.to]
                      /\ d.pkt \in Packets
                      /\ d.as = "answer" => d.key \in used[d.pkt.src]
                      /\ d.as # "answer" =>
                           \E r \in Macs : d.key \in used[r] /\ MayReach(r, d.pkt, d.as)'
                      /\ \/ d.pkt \in handled
                         \/ \E q \in Procs : proc'[q].at = "send" /\ proc'[q].msg = d.pkt
    BY Zenon DEF Delivered
  <2>1. CASE d \in delivered
    <3>1. \/ d.pkt \in handled
          \/ \E q \in Procs : proc'[q].at = "send" /\ proc'[q].msg = d.pkt
      <4>1. c.at = "send" /\ c.msg = k
        BY Zenon DEF GoesOn
      <4>2. d.pkt \in handled \/ \E q \in Procs : proc[q].at = "send" /\ proc[q].msg = d.pkt
        BY <1>1, <2>1, Zenon DEF Delivered
      <4> QED
        BY <1>3, <4>1, <4>2, Zenon
    <3>2. /\ d.raw = d.pkt /\ d.to \in Macs /\ d.key \in used[d.to]
          /\ d.pkt \in Packets
          /\ d.as = "answer" => d.key \in used[d.pkt.src]
          /\ d.as # "answer" => \E r \in Macs : d.key \in used[r] /\ MayReach(r, d.pkt, d.as)
      BY <1>1, <2>1, Zenon DEF Delivered
    <3> QED
      BY <1>7, <3>1, <3>2, Zenon
  <2>2. CASE d \notin delivered
    <3>1. /\ d.pkt = k /\ d.raw = k /\ d.as = as
          /\ d.key = key /\ d.to \in Macs /\ key \in used[d.to] /\ key # None
      BY <1>5, <2>2, Zenon
    <3>2. \E q \in Procs : proc'[q].at = "send" /\ proc'[q].msg = k
      BY <1>3, Zenon DEF GoesOn
    <3>3. as = "answer" => key \in used[k.src]
      BY <3>1, Zenon DEF Reaches
    <3>4. ASSUME as # "answer"
          PROVE  \E r \in Macs : key \in used[r] /\ MayReach(r, k, as)'
      <4>1. PICK r \in Macs : key \in used[r] /\ MayReach(r, k, as)
        BY <3>1, <3>4, Zenon DEF Reaches
      <4> QED
        BY <1>7, <4>1, Zenon
    <3> QED
      BY <1>1, <3>1, <3>2, <3>3, <3>4, Zenon
  <2> QED
    BY <2>1, <2>2, Zenon
<1>10. Once'
  <2>1. \A keys \in twice' : ~(Own(keys[1]) /\ Own(keys[2]))
    BY <1>1, Zenon DEF Once, Adds, NotYet
  <2>2. OnceAt(p)'
    BY <1>3, <1>6, Zenon DEF OnceAt, GoesOn
  <2>3. ASSUME NEW q \in Procs, q # p PROVE OnceAt(q)'
    <3> SUFFICES ASSUME proc[q].at = "send" PROVE OnceAt(q)'
      BY <1>3, <2>3, Zenon DEF OnceAt
    <3>1. proc[q].msg # k
      <4>1. Holds(p) /\ Holds(q) /\ proc[q].msg = buffer[proc[q].buf]
        BY <1>1, Zenon DEF Holds, Contents
      <4>2. proc[p].buf \in InUse /\ proc[q].buf \in InUse /\ proc[p].buf # proc[q].buf
        BY <1>1, <2>3, <4>1, Zenon DEF Held
      <4>3. buffer[proc[q].buf] # buffer[proc[p].buf]
        BY <1>1, <4>2, Zenon DEF Contents
      <4> QED
        BY <1>2, <4>1, <4>3, Zenon
    <3>2. \A d \in delivered' : d.pkt = proc[q].msg => d \in delivered
      BY <1>5, <3>1, Zenon
    <3>3. OnceAt(q)
      BY <1>1, Zenon DEF Once
    <3> QED
      BY <1>3, <1>6, <2>3, <3>2, <3>3, Zenon DEF OnceAt
  <2> QED
    BY <1>6, <2>1, <2>2, <2>3, Zenon DEF Once
<1> QED
  BY <1>3, <1>4, <1>8, <1>9, <1>10, Zenon DEF IInv

\* The answer to a request is sent.
LEMMA AnswerStep ==
    ASSUME IInv, NEW p \in Procs, Answer(p)
    PROVE  IInv'
<1>1. PICK c, key, k : /\ c = [proc[p] EXCEPT !.answer = None]
                       /\ key = proc[p].answer /\ k = proc[p].msg
  BY Zenon
<1>2. /\ proc[p].at = "send" /\ key # None /\ Goto(p, c)
      /\ SentTo(p, key, "answer") \/ NotSentTo(key)
      /\ UNCHANGED <<edge, edges, edgesBySocket, buffer, reader, packetChan, pool, shutdown,
                     plan, home, used, refreshed, registered, received, handled,
                     wssConnections, upgraded, conn>>
  BY <1>1, Zenon DEF Answer, tables, io, ends, clients, history
<1>3. SendingAt(p) /\ OnceAt(p) /\ proc[p] \in ProcRecords
  BY Zenon DEF IInv, TypedIO, Sending, Once
<1>4. /\ c \in ProcRecords /\ c.at = "send" /\ c.buf = proc[p].buf /\ c.msg = k
      /\ c.answer = None /\ c.as = proc[p].as /\ c.todo = proc[p].todo
      /\ c.fallback = proc[p].fallback /\ key \in Keys \cup {None} /\ c.todo \subseteq Objs
  BY <1>1, <1>2, <1>3, Zenon DEF ProcRecords
<1>5. Reaches(k, key, "answer")
  BY <1>1, <1>2, <1>3, Zenon DEF SendingAt, Reaches
<1>6. /\ Targets(k, c.as, c.todo) /\ (c.as = "answer" => c.todo = {})
      /\ c.fallback => c.as = "raw" /\ k.kind = "data"
  BY <1>1, <1>2, <1>3, <1>4, Zenon DEF SendingAt, Targets
<1>7. NotYet(k, key, "answer")
  BY <1>1, <1>2, <1>3, Zenon DEF OnceAt, NotYet
<1>8. Adds(k, key, "answer")
  BY <1>1, <1>2, <1>4, SentFacts, Zenon
<1>9. \A d \in delivered' : d.pkt = k =>
        /\ c.fallback => d.as # c.as
        /\ Own(d.key) /\ d.as = c.as => \A o \in c.todo : d.to # o[1]
  <2>1. \A d \in delivered' : d \in delivered \/ d.as = "answer"
    BY <1>8, Zenon DEF Adds
  <2> QED
    BY <1>1, <1>2, <1>3, <1>4, <1>6, <2>1 DEF OnceAt
<1>10. GoesOn(p, k, c)
  BY <1>4, <1>6, <1>9, Zenon DEF GoesOn
<1> QED
  BY <1>1, <1>2, <1>5, <1>7, <1>8, <1>10, SendStep, Zenon

\* forwardPacket to object o: the next state has no fallback, and targets T.
LEMMA ForwardStep ==
    ASSUME IInv, NEW p \in Procs, NEW o, proc[p].at = "send", proc[p].answer = None,
           o \in proc[p].todo, NEW c, NEW T,
           c = [proc[p] EXCEPT !.todo = T, !.fallback = FALSE], Goto(p, c),
           \/ SentTo(p, Route(edge[o]), proc[p].as) /\ T = proc[p].todo \ {o}
           \/ /\ NotSentTo(Route(edge[o]))
              /\ T = IF proc[p].fallback THEN Others(proc[p].msg.src) ELSE proc[p].todo \ {o},
           UNCHANGED <<edge, edges, edgesBySocket, buffer, reader, packetChan, pool, shutdown,
                       plan, home, used, refreshed, registered, received, handled,
                       wssConnections, upgraded, conn>>
    PROVE  IInv'
<1>1. SendingAt(p) /\ OnceAt(p) /\ proc[p] \in ProcRecords /\ TypedTables /\ KnownKeys
  BY Zenon DEF IInv, TypedIO, Sending, Once
<1>2. /\ proc[p].msg \in Packets /\ o \in Objs /\ edge[o] # None /\ proc[p].as # "answer"
      /\ MayReach(o[1], proc[p].msg, proc[p].as) /\ proc[p].todo \subseteq Objs
      /\ proc[p].as \in {"raw", "event"}
  BY <1>1, Zenon DEF SendingAt, ProcRecords
<1>3. o[1] \in Macs
  BY <1>2, Zenon DEF Objs
<1>4. PICK key, k : key = Route(edge[o]) /\ k = proc[p].msg
  BY Zenon
<1>5. key \in Keys \cup {None} /\ key \in used[o[1]] \cup {None}
  <2>1. edge[o] \in EdgeRecords
    BY <1>1, <1>2, Zenon DEF TypedTables
  <2> QED
    BY <1>1, <1>2, <1>4, <2>1, Zenon DEF KnownKeys, Route, EdgeRecords, Keys
<1>6. Targets(k, proc[p].as, proc[p].todo)
  BY <1>1, <1>2, <1>4, Zenon DEF SendingAt, Targets
<1>7. Targets(k, proc[p].as, T)
  <2>1. Targets(k, proc[p].as, proc[p].todo \ {o})
    BY <1>6, Zenon DEF Targets
  <2>2. ASSUME proc[p].fallback
        PROVE  Targets(k, proc[p].as, Others(k.src))
    <3>1. k.kind = "data" /\ k \in Packets
      BY <1>1, <1>2, <1>4, <2>2, Zenon DEF SendingAt
    <3> QED
      BY <3>1, OthersFacts, Zenon
  <2> QED
    BY <1>4, <2>1, <2>2, Zenon
<1>8. /\ c \in ProcRecords /\ c.at = "send" /\ c.buf = proc[p].buf /\ c.msg = k
      /\ c.answer = None /\ c.as = proc[p].as /\ c.todo = T /\ ~c.fallback
  <2>1. T \subseteq Objs
    BY <1>7, Zenon DEF Targets
  <2> QED
    BY <1>1, <1>4, <2>1, Zenon DEF ProcRecords
<1>9. Reaches(k, key, proc[p].as)
  BY <1>2, <1>3, <1>4, <1>5, Zenon DEF Reaches
<1>10. ASSUME NEW m \in Macs, key \in used[m], Own(key), key # None PROVE m = o[1]
  BY <1>3, <1>5, <1>10, OwnsOne, Zenon
<1>11. NotYet(k, key, proc[p].as)
  <2> SUFFICES ASSUME NEW d \in delivered, d.pkt = k, d.as = proc[p].as,
                      key \in used[d.to], Own(d.key), Own(key)
               PROVE  FALSE
    BY Zenon DEF NotYet
  <2>1. d.to # o[1]
    BY <1>1, <1>4, Zenon DEF OnceAt
  <2>2. d.to \in Macs
    BY Zenon DEF IInv, Delivered
  <2>3. key # None
    BY <2>2, KeyFacts, Zenon DEF IInv, TypedClients
  <2> QED
    BY <1>10, <2>1, <2>2, <2>3, Zenon
<1>12. SentTo(p, key, proc[p].as) \/ NotSentTo(key)
  BY <1>4, Zenon
<1>13. Adds(k, key, proc[p].as)
  BY <1>4, <1>5, <1>12, SentFacts, Zenon
<1>14. \A d \in delivered' : d.pkt = k =>
         (Own(d.key) /\ d.as = c.as => \A q \in c.todo : d.to # q[1])
  <2> SUFFICES ASSUME NEW d \in delivered', d.pkt = k, Own(d.key),
                      d.as = proc[p].as, NEW q \in T
               PROVE  d.to # q[1]
    BY <1>8, Zenon
  <2>1. CASE proc[p].fallback /\ NotSentTo(key)
    <3>1. delivered' = delivered
      BY <2>1, Zenon DEF NotSentTo, WriteFails, Lost
    <3> QED
      BY <1>1, <1>4, <2>1, <3>1, Zenon DEF OnceAt
  <2>2. CASE T = proc[p].todo \ {o}
    <3>1. CASE d \in delivered
      BY <1>1, <1>4, <2>2, <3>1, Zenon DEF OnceAt
    <3>2. CASE d \notin delivered
      <4>1. d.key = key /\ d.to \in Macs /\ key \in used[d.to] /\ key # None
        BY <1>13, <3>2, Zenon DEF Adds
      <4>2. d.to = o[1]
        BY <1>10, <4>1, Zenon
      <4>3. q[1] # o[1]
        BY <1>6, <2>2, Zenon DEF Targets
      <4> QED
        BY <4>2, <4>3, Zenon
    <3> QED
      BY <3>1, <3>2, Zenon
  <2> QED
    BY <1>4, <2>1, <2>2, Zenon
<1>15. GoesOn(p, k, c)
  BY <1>2, <1>7, <1>8, <1>14, Zenon DEF GoesOn
<1> QED
  BY <1>4, <1>9, <1>11, <1>13, <1>15, SendStep, Zenon

\* A packet is forwarded to a target, or forwarding fails.
LEMMA ForwardsStep ==
    ASSUME IInv, NEW p \in Procs, NEW o, Forward(p, o) \/ ForwardFails(p, o)
    PROVE  IInv'
<1>1. CASE Forward(p, o)
  <2>1. PICK T : T = proc[p].todo \ {o}
    BY Zenon
  <2>2. PICK c : c = [proc[p] EXCEPT !.todo = T, !.fallback = FALSE]
    BY Zenon
  <2>3. Goto(p, c)
    BY <1>1, <2>1, <2>2, Zenon DEF Forward
  <2>4. /\ proc[p].at = "send" /\ proc[p].answer = None /\ o \in proc[p].todo
        /\ SentTo(p, Route(edge[o]), proc[p].as)
        /\ UNCHANGED <<edge, edges, edgesBySocket, buffer, reader, packetChan, pool, shutdown,
                       plan, home, used, refreshed, registered, received, handled,
                       wssConnections, upgraded, conn>>
    BY <1>1, Zenon DEF Forward, tables, io, ends, clients, history
  <2> QED
    BY <2>1, <2>2, <2>3, <2>4, ForwardStep, Zenon
<1>2. CASE ForwardFails(p, o)
  <2>1. PICK T : T = IF proc[p].fallback THEN Others(proc[p].msg.src) ELSE proc[p].todo \ {o}
    BY Zenon
  <2>2. PICK c : c = [proc[p] EXCEPT !.todo = T, !.fallback = FALSE]
    OBVIOUS
  <2>3. Goto(p, c)
    BY <1>2, <2>1, <2>2, Zenon DEF ForwardFails
  <2>4. /\ proc[p].at = "send" /\ proc[p].answer = None /\ o \in proc[p].todo
        /\ NotSentTo(Route(edge[o]))
        /\ UNCHANGED <<edge, edges, edgesBySocket, buffer, reader, packetChan, pool, shutdown,
                       plan, home, used, refreshed, registered, received, handled,
                       wssConnections, upgraded, conn>>
    BY <1>2, Zenon DEF ForwardFails, tables, io, ends, clients, history
  <2> QED
    BY <2>1, <2>2, <2>3, <2>4, ForwardStep, Zenon
<1> QED
  BY <1>1, <1>2, Zenon

\* A handler that has nothing left to send gives its buffer back.
LEMMA DoneStep ==
    ASSUME IInv, NEW p \in Procs, Done(p)
    PROVE  IInv'
<1>1. PICK at, c, b, k : /\ at = (IF p \in Workers THEN "idle" ELSE "read")
                         /\ c = [Idle EXCEPT !.at = at] /\ b = proc[p].buf /\ k = proc[p].msg
  BY Zenon
<1>2. /\ proc[p].at = "send" /\ pool' = pool \cup {b} /\ handled' = handled \cup {k}
      /\ Goto(p, c)
      /\ UNCHANGED <<edge, edges, edgesBySocket, wssConnections, conn, reader, packetChan,
                     buffer, shutdown, plan, home, used, refreshed, registered, upgraded,
                     received, delivered, twice>>
  BY <1>1, Zenon DEF Done, tables, ends, clients, history
<1>3. /\ TypedIO /\ Held /\ Contents /\ Sending /\ Delivered /\ Once
      /\ Grow /\ ObjectsStay
  BY <1>2, Zenon DEF IInv, Grow, ObjectsStay
<1>4. c \in ProcRecords /\ c.at = at /\ at \in {"idle", "read"}
  BY <1>1, Zenon DEF Idle, ProcRecords
<1>5. /\ proc'[p] = c /\ \A q \in Procs : q # p => proc'[q] = proc[q]
      /\ proc' \in [Procs -> ProcRecords]
  BY <1>2, <1>3, <1>4, ProcFacts, Zenon
<1>6. /\ Holds(p) /\ ~Holds(p)' /\ b \in InUse /\ b \in Buffers /\ buffer[b] = k
      /\ k \in received \ handled
      /\ \A q \in Procs : q # p => (Holds(q)' <=> Holds(q)) /\ proc'[q].buf = proc[q].buf
      /\ \A q \in Procs : q # p /\ Holds(q) => proc[q].buf # b
  <2>1. Holds(p) /\ ~Holds(p)'
    BY <1>2, <1>4, <1>5, Zenon DEF Holds
  <2>2. b \in InUse /\ b \in Buffers
    BY <1>1, <1>3, <2>1, Zenon DEF Held, InUse
  <2>3. buffer[b] = k /\ k \in received \ handled
    BY <1>1, <1>2, <1>3, <2>2, Zenon DEF Contents
  <2>4. \A q \in Procs : q # p => (Holds(q)' <=> Holds(q)) /\ proc'[q].buf = proc[q].buf
    BY <1>5, Zenon DEF Holds
  <2>5. \A q \in Procs : q # p /\ Holds(q) => proc[q].buf # b
    BY <1>1, <1>3, <2>1, Zenon DEF Held
  <2> QED
    BY <2>1, <2>2, <2>3, <2>4, <2>5, Zenon
<1>7. InUse' = InUse \ {b}
  BY <1>2, Zenon DEF InUse
<1>8. TypedIO'
  BY <1>2, <1>3, <1>5, <1>6, Zenon DEF TypedIO
<1>9. TypedClients' /\ TypedTables' /\ TypedConns' /\ KnownKeys' /\ Members'
  BY <1>2, Frames, Zenon
<1>10. Held'
  <2>1. reader.at = "queue" => reader.buf # b
    BY <1>1, <1>3, <1>6, Zenon DEF Held
  <2>2. \A i \in DOMAIN packetChan : packetChan[i] # b
    BY <1>1, <1>3, <1>6 DEF Held
  <2>3. reader.at = "queue" =>
          /\ reader.buf \in InUse'
          /\ \A i \in DOMAIN packetChan : packetChan[i] # reader.buf
          /\ \A q \in Procs : Holds(q)' => proc'[q].buf # reader.buf
    BY <1>3, <1>6, <1>7, <2>1, Zenon DEF Held
  <2>4. \A i \in DOMAIN packetChan :
          /\ packetChan[i] \in InUse'
          /\ \A j \in DOMAIN packetChan : packetChan[i] = packetChan[j] => i = j
          /\ \A q \in Procs : Holds(q)' => proc'[q].buf # packetChan[i]
    BY <1>3, <1>6, <1>7, <2>2 DEF Held
  <2>5. \A q \in Procs : Holds(q)' =>
          /\ proc'[q].buf \in InUse'
          /\ \A r \in Procs \ {q} : Holds(r)' => proc'[r].buf # proc'[q].buf
    BY <1>3, <1>6, <1>7 DEF Held
  <2>6. \A x \in InUse' : \/ reader.at = "queue" /\ reader.buf = x
                          \/ \E i \in DOMAIN packetChan : packetChan[i] = x
                          \/ \E q \in Procs : Holds(q)' /\ proc'[q].buf = x
    <3> SUFFICES ASSUME NEW x \in InUse'
                 PROVE  \/ reader.at = "queue" /\ reader.buf = x
                        \/ \E i \in DOMAIN packetChan : packetChan[i] = x
                        \/ \E q \in Procs : Holds(q)' /\ proc'[q].buf = x
      BY Zenon
    <3>1. x \in InUse /\ x # b
      BY <1>7, Zenon
    <3>2. \A q \in Procs : Holds(q) /\ proc[q].buf = x => Holds(q)' /\ proc'[q].buf = x
      BY <1>1, <1>6, <3>1, Zenon
    <3> QED
      BY <1>3, <3>1, <3>2, Zenon DEF Held
  <2> QED
    BY <1>2, <2>3, <2>4, <2>5, <2>6, Zenon DEF Held
<1>11. Contents'
  <2>1. \A x \in InUse' : buffer[x] \in received \ handled'
    BY <1>2, <1>3, <1>6, <1>7, Zenon DEF Contents
  <2>2. \A x, y \in InUse' : buffer[x] = buffer[y] => x = y
    BY <1>3, <1>7, Zenon DEF Contents
  <2>3. \A j \in received \ handled' : \E x \in InUse' : buffer[x] = j
    BY <1>2, <1>3, <1>6, <1>7, Zenon DEF Contents
  <2>4. \A q \in Procs : proc'[q].at = "send" => proc'[q].msg = buffer[proc'[q].buf]
    BY <1>3, <1>4, <1>5, Zenon DEF Contents
  <2>5. \A t \in Transports : Holds(t)' => buffer[proc'[t].buf].from = t
    BY <1>3, <1>6 DEF Contents, Procs
  <2>6. plan.packets \cap received = {} /\ handled' \subseteq received
    BY <1>2, <1>3, <1>6, Zenon DEF Contents
  <2> QED
    BY <1>2, <2>1, <2>2, <2>3, <2>4, <2>5, <2>6, Zenon DEF Contents
<1>12. Connected'
  <2>1. \A t \in Transports : \/ proc'[t].at = proc[t].at
                              \/ proc[t].at # "idle" /\ proc'[t].at # "delete"
    BY <1>2, <1>4, <1>5, Zenon DEF Procs
  <2> QED
    BY <1>2, <2>1, ConnectionsKept, Zenon
<1>13. SendingAt(p)' /\ OnceAt(p)'
  BY <1>4, <1>5, Zenon DEF SendingAt, OnceAt
<1>14. Sending' /\ Once'
  <2>1. \A q \in Procs : SendingAt(q)'
    BY <1>3, <1>5, <1>13, OtherSends, Zenon DEF Sending
  <2>2. \A q \in Procs : OnceAt(q)'
    BY <1>2, <1>3, <1>5, <1>13, OtherSent, Zenon DEF Once
  <2>3. Once'
    BY <1>2, <1>3, <2>2, TwiceLater, Zenon
  <2> QED
    BY <2>1, <2>3, Zenon DEF Sending
<1>15. Delivered'
  <2>1. \A d \in delivered : \/ d.pkt \in handled'
                             \/ \E q \in Procs : proc'[q].at = "send" /\ proc'[q].msg = d.pkt
    <3> SUFFICES ASSUME NEW d \in delivered, d.pkt \notin handled'
                 PROVE  \E q \in Procs : proc'[q].at = "send" /\ proc'[q].msg = d.pkt
      BY Zenon
    <3>1. PICK q \in Procs : proc[q].at = "send" /\ proc[q].msg = d.pkt
      BY <1>2, <1>3, Zenon DEF Delivered
    <3>2. q # p
      BY <1>1, <1>2, <3>1, Zenon
    <3> QED
      BY <1>5, <3>1, <3>2, Zenon
  <2> QED
    BY <1>2, <1>3, <2>1, DeliveredLater, Zenon
<1>16. Stopping'
  <2>1. \A q \in Workers : proc'[q].at = "ended" <=> proc[q].at = "ended"
    BY <1>2, <1>4, <1>5, Zenon DEF Procs
  <2> QED
    BY <1>2, <2>1, StoppingKept, Zenon
<1> QED
  BY <1>8, <1>9, <1>10, <1>11, <1>12, <1>14, <1>15, <1>16, Zenon DEF IInv

-----------------------------------------------------------------------------
(* The theorems *)

\* Every step of the receive loop, of a goroutine, of the edges and of the
\* connections keeps the invariant.
THEOREM NextInv == IInv /\ [Next]_vars => IInv'
<1> SUFFICES ASSUME IInv, [Next]_vars PROVE IInv'
  BY Zenon
<1>1. CASE UNCHANGED vars
  BY <1>1, EndStep, Zenon
<1>2. ASSUME NEW p \in Procs, Step(p) PROVE IInv'
  <2>1. CASE p \in Workers /\ Take(p)
    BY <2>1, TakeStep, Zenon
  <2>2. CASE p \in Workers /\ WorkerEnds(p)
    BY <2>2, WorkerEndsStep, Zenon
  <2>3. CASE p \in Transports /\ ReadError(p)
    BY <2>3, ReadErrorStep
  <2>4. CASE p \in Transports /\ DeleteConnection(p)
    BY <2>4, DeleteConnectionStep
  <2>5. CASE ProcessPacket(p)
    BY <2>5, ProcessPacketStep, Zenon
  <2>6. CASE Answer(p)
    BY <2>6, AnswerStep, Zenon
  <2>7. CASE \E o \in proc[p].todo : Forward(p, o) \/ ForwardFails(p, o)
    BY <2>7, ForwardsStep, Zenon
  <2>8. CASE Done(p)
    BY <2>8, DoneStep
  <2> QED
    BY <1>2, <2>1, <2>2, <2>3, <2>4, <2>5, <2>6, <2>7, <2>8, Zenon DEF Step
<1>3. CASE ReaderStep
  BY <1>3, ReaderTopStep, ReaderQueuesStep, Zenon DEF ReaderStep
<1>4. CASE \E k \in plan.packets : ReadFromUDP(k)
  BY <1>4, ReadFromUDPStep, Zenon
<1>5. CASE \E t \in Transports : Upgrade(t) \/ Stall(t)
  BY <1>5, UpgradeStep, StallBreakStep, Zenon
<1>6. CASE \E k \in plan.packets : Unsent(k)
  BY <1>6, UnsentStep
<1>7. CASE \E t \in Transports : \E k \in plan.packets : ReadWSS(t, k)
  BY <1>7, ReadWSSStep, Zenon
<1>8. CASE Signal \/ ShutdownComplete \/ Exit
  BY <1>8, EndStep, Zenon
<1>9. CASE \E t \in Transports : GiveUp(t)
  BY <1>9, StallBreakStep, Zenon DEF GiveUp
<1>10. CASE Ended
  BY <1>10, EndStep, Zenon DEF Ended
<1> QED
  BY <1>1, <1>2, <1>3, <1>4, <1>5, <1>6, <1>7, <1>8, <1>9, <1>10, Zenon DEF Next

\* The inductive invariant holds in every reachable state.
THEOREM InvHolds == Spec => []IInv
<1> QED
  BY InitInv, NextInv, PTL DEF Spec

\* What was delivered, and that handlers repeat nothing, give Relayed.
LEMMA RelayedFollows == IInv => Relayed
<1> SUFFICES ASSUME IInv PROVE Relayed
  BY Zenon
<1>1. \A keys \in twice : ~(Own(keys[1]) /\ Own(keys[2]))
  BY Zenon DEF IInv, Once
<1>2. ASSUME NEW d \in delivered, Own(d.key), Own(Key(d.pkt.from))
      PROVE  /\ d.raw = d.pkt
             /\ d.as = "answer" => d.to = d.pkt.src
             /\ d.as # "answer" => /\ d.to # d.pkt.src
                                   /\ CommunityOf[d.to] = CommunityOf[d.pkt.src]
             /\ d.as = "raw" /\ d.pkt.kind # "data" => d.to = d.pkt.dst
  <2>1. /\ d.raw = d.pkt /\ d.to \in Macs /\ d.key \in used[d.to] /\ d.pkt \in Packets
        /\ d.as = "answer" => d.key \in used[d.pkt.src]
        /\ d.as # "answer" => \E r \in Macs : d.key \in used[r] /\ MayReach(r, d.pkt, d.as)
    BY Zenon DEF IInv, Delivered
  <2>2. d.pkt.src \in Macs
    BY <2>1, Zenon DEF Packets
  <2>3. d.as = "answer" => d.to = d.pkt.src
    BY <1>2, <2>1, <2>2, OwnsOne, Zenon
  <2>4. d.as # "answer" => MayReach(d.to, d.pkt, d.as)
    BY <1>2, <2>1, OwnsOne, Zenon
  <2> QED
    BY <1>2, <2>1, <2>3, <2>4, Zenon DEF MayReach
<1> QED
  BY <1>1, <1>2, Zenon DEF Relayed

\* What arrives at an edge was sent for it: pooled buffers, live Edge objects
\* and the fallback of ForwardWithFallBack never mix packets up, and no handler
\* sends a packet twice to an edge.
THEOREM AlwaysRelayed == Spec => []Relayed
<1> QED
  BY InvHolds, RelayedFollows, PTL

\* The members' objects and the table of connections give RouteCurrent.
LEMMA RouteFollows == IInv => RouteCurrent
<1> SUFFICES ASSUME IInv, NEW m \in Macs, Known(m), Own(Key(home[m])),
                    IF home[m] \in Addrs
                    THEN refreshed[m] = home[m] /\ edge[Obj(m)].wss = None
                    ELSE /\ registered[m] = home[m] /\ conn[home[m]] = "open"
                         /\ OnlyConnection(home[m])
             PROVE  Target(edge[Obj(m)]) = home[m]
  BY Zenon DEF RouteCurrent
<1>1. /\ edge[Obj(m)] # None /\ registered[m] # None
      /\ refreshed[m] \in Addrs => edge[Obj(m)].addr = refreshed[m]
      /\ registered[m] \in Transports => edge[Obj(m)].wss = ConnOf[registered[m]]
  BY Zenon DEF IInv, Members
<1>2. CASE home[m] \in Addrs
  <2>1. Route(edge[Obj(m)]) = home[m]
    BY <1>1, <1>2, Zenon DEF Route
  <2>2. home[m] \notin Conns
    BY <1>2, ServiceAssumption, Zenon
  <2> QED
    BY <2>1, <2>2, Zenon DEF Target
<1>3. CASE home[m] \notin Addrs
  <2>1. registered[m] = home[m] /\ conn[home[m]] = "open" /\ OnlyConnection(home[m])
    BY <1>3, Zenon
  <2>2. home[m] \in Transports
    BY <1>1, <1>3, <2>1, Zenon DEF IInv, TypedTables
  <2>3. ConnOf[home[m]] \in Conns /\ ConnOf[home[m]] # None
    BY <2>2, ServiceAssumption, Zenon
  <2>4. Route(edge[Obj(m)]) = ConnOf[home[m]]
    BY <1>1, <2>1, <2>2, <2>3, Zenon DEF Route
  <2>5. wssConnections[ConnOf[home[m]]] = home[m]
    BY <2>1, <2>2, Zenon DEF IInv, Connected
  <2> QED
    BY <2>3, <2>4, <2>5, Zenon DEF Target
<1> QED
  BY <1>2, <1>3, Zenon

\* forwardPacket sends to the socket that an edge uses, once a registration or
\* heartbeat from there was the last one handled.
THEOREM RouteAlwaysCurrent == Spec => []RouteCurrent
<1> QED
  BY InvHolds, RouteFollows, PTL

\* The keys of members give FastPathKnows.
LEMMA FastPathFollows == IInv => FastPathKnows
BY Zenon DEF IInv, Members, FastPathKnows

\* handleVFuze knows every member by the socket of its last registration.
THEOREM FastPathAlwaysKnows == Spec => []FastPathKnows
<1> QED
  BY InvHolds, FastPathFollows, PTL

\* Workers that ended, and buffers that nobody holds, give DrainedWhenComplete.
LEMMA DrainedFollows == IInv => DrainedWhenComplete
<1> SUFFICES ASSUME IInv, shutdown = "complete"
             PROVE  /\ reader.at = "ended" /\ packetChan = <<>>
                    /\ {k \in received : k.from \in Addrs} \subseteq handled
                    /\ Buffers \subseteq pool \cup {proc[t].buf : t \in Transports}
  BY Zenon DEF DrainedWhenComplete
<1>1. /\ \A p \in Workers : proc[p].at = "ended"
      /\ reader.at = "ended" /\ packetChan = <<>>
  BY ServiceAssumption, Zenon DEF IInv, Stopping
<1>2. \A b \in InUse : \E t \in Transports : Holds(t) /\ proc[t].buf = b
  <2>1. \A p \in Workers : ~Holds(p)
    BY <1>1, Zenon DEF Holds
  <2>2. DOMAIN packetChan = {}
    BY <1>1
  <2>3. Held
    BY Zenon DEF IInv
  <2> QED
    BY <1>1, <2>1, <2>2, <2>3, Zenon DEF Held, Procs
<1>3. Buffers \subseteq pool \cup {proc[t].buf : t \in Transports}
  BY <1>2, Zenon DEF InUse
<1>4. ASSUME NEW k \in received, k.from \in Addrs PROVE k \in handled
  <2> SUFFICES ASSUME k \notin handled PROVE FALSE
    BY Zenon
  <2>1. PICK b \in InUse : buffer[b] = k
    BY Zenon DEF IInv, Contents
  <2>2. PICK t \in Transports : Holds(t) /\ proc[t].buf = b
    BY <1>2, Zenon
  <2>3. k.from = t
    BY <2>1, <2>2, Zenon DEF IInv, Contents
  <2> QED
    BY <1>4, <2>3, ServiceAssumption, Zenon
<1> QED
  BY <1>1, <1>3, <1>4, Zenon

\* When Shutdown completes, every datagram that was read has been processed and
\* every buffer but those of connections is back in the pool.
THEOREM AlwaysDrainedWhenComplete == Spec => []DrainedWhenComplete
<1> QED
  BY InvHolds, DrainedFollows, PTL

====
