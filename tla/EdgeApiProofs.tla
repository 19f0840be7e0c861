--------------------------- MODULE EdgeApiProofs ---------------------------
(***************************************************************************)
(* Proofs about EdgeApi, for any edges, HTTP requests and plans: a waiting *)
(* flag has an answer to wait for, the last change of the peers is         *)
(* reported, an undisturbed request answers with fresh datas, and a graph  *)
(* shows what the reports say.                                             *)
(***************************************************************************)
EXTENDS EdgeApi, TLAPS

(* What is under way. *)
Flight == BagToSet(net)

InfosMessages == [type: {"infos"}, to: SUBSET Macs]
FullMessages == [type: {"full"}, reach: Reach, epoch: Nat]
PlainMessages == [type: {"fullRequest", "leasesRequest", "leases"}]
Datagrams == InfosMessages \cup FullMessages \cup PlainMessages

NoRequest == [kind |-> None, at |-> "none"]
Kinds == {"json", "dot", "offlines", "leases"}
Steps == {"check", "set", "send", "poll", "slept", "done", "error"}
Results == Datas \cup Dots \cup {None, "leases"}
BegunRequests ==
    [kind: Kinds, at: Steps, late: BOOLEAN, alone: BOOLEAN, cleared: BOOLEAN,
     epoch: Nat, result: Results]

-----------------------------------------------------------------------------
(* The inductive invariant. *)

TypedEdge ==
    /\ peers \in SUBSET Macs /\ hasPendingChanges \in BOOLEAN
    /\ reporter \in [at: {"idle", "clear", "send"}, infos: SUBSET Macs]
    /\ IsWaitingCommunityDatas \in BOOLEAN
    /\ IsWaitingForLeasesInfos \in BOOLEAN
    /\ datas \in Datas \cup {None}
    /\ LastLeasesInfos \in {None, "leases"}

TypedRequests == req \in [Requests -> BegunRequests \cup {NoRequest}]

TypedNet == IsABag(net) /\ Flight \subseteq Datagrams

TypedSupernode == reported \in Reach /\ epoch \in Nat

TypedHistory ==
    /\ plan \in Plans
    /\ missed \in BOOLEAN /\ reordered \in BOOLEAN /\ lost \in BOOLEAN
    /\ refused \in BOOLEAN /\ overtaken \in BOOLEAN

(* Between sending a request for the leases and setting the flag, the      *)
(* request or its answer is under way as well. *)
FullAwaited ==
    IsWaitingCommunityDatas =>
        \/ Messages("fullRequest") \cup Messages("full") # {}
        \/ \E r \in Requests : At(r, {"json", "dot"}, "send")
        \/ lost \/ refused

LeasesAwaited ==
    IsWaitingForLeasesInfos \/ (\E r \in Requests : At(r, {"leases"}, "set")) =>
        \/ Messages("leasesRequest") \cup Messages("leases") # {}
        \/ lost \/ overtaken

(* Unless two reports were under way at a time, there is at most one. *)
OneReport ==
    ~reordered =>
        \A m \in Messages("infos") :
            net[m] = 1 /\ \A n \in Messages("infos") : n = m

(* The peers are pending, or read, or under way, or stored. *)
PeersReported ==
    ~missed /\ ~reordered /\ ~lost =>
        /\ reporter.at = "clear" => reporter.infos = peers
        /\ reporter.at = "send" /\ ~hasPendingChanges => reporter.infos = peers
        /\ reporter.at = "idle" /\ ~hasPendingChanges =>
             /\ \A m \in Messages("infos") : m.to = peers
             /\ Messages("infos") = {} =>
                  reported[Me] = peers \/ (reported[Me] = None /\ peers = {})

FreshDatas(e) == datas # None /\ datas.epoch >= e

(* Since a request began with nothing under way, every answer is as new as *)
(* the request; it does not find the flag clear unless one of them came. *)
FreshAnswer(r) ==
    req[r].at \notin {"none", "error"} /\ req[r].alone =>
        /\ req[r].epoch <= epoch
        /\ req[r].at # "done" =>
             \A m \in Messages("full") : m.epoch >= req[r].epoch
        /\ req[r].kind \in {"json", "dot"} /\ ~req[r].cleared
             /\ req[r].at \in {"send", "poll", "slept"} =>
             IsWaitingCommunityDatas \/ FreshDatas(req[r].epoch)
        /\ req[r].kind \in {"json", "dot"} /\ ~req[r].cleared
             /\ req[r].at = "done" =>
             req[r].result # None /\ req[r].result.epoch >= req[r].epoch

FreshAnswers == \A r \in Requests : FreshAnswer(r)

(* A graph is made from a full state. *)
GraphsMade ==
    \A r \in Requests :
        req[r].at = "done" /\ req[r].kind = "dot" /\ req[r].result # None =>
            /\ req[r].result.reach \in Reach
            /\ req[r].result = DotOf(req[r].result)

Typed == TypedEdge /\ TypedRequests /\ TypedNet /\ TypedSupernode /\ TypedHistory

IInv ==
    /\ Typed /\ FullAwaited /\ LeasesAwaited /\ OneReport /\ PeersReported
    /\ FreshAnswers /\ GraphsMade

-----------------------------------------------------------------------------
(* The bag of datagrams. *)

(* Sending adds a copy of one datagram. *)
LEMMA BagAdd ==
    ASSUME NEW B, IsABag(B), NEW m
    PROVE  /\ IsABag(B (+) SetToBag({m}))
           /\ BagToSet(B (+) SetToBag({m})) = BagToSet(B) \cup {m}
           /\ \A x \in BagToSet(B) : x # m => (B (+) SetToBag({m}))[x] = B[x]
           /\ m \notin BagToSet(B) => (B (+) SetToBag({m}))[m] = 1
BY DEF BagToSet, SetToBag, (+), IsABag

(* Delivering takes one away, and leaves the other datagrams as they are. *)
LEMMA BagRemove ==
    ASSUME NEW B, IsABag(B), NEW m
    PROVE  /\ IsABag(B (-) SetToBag({m}))
           /\ BagToSet(B (-) SetToBag({m})) \subseteq BagToSet(B)
           /\ \A x \in BagToSet(B) : x # m =>
                 /\ x \in BagToSet(B (-) SetToBag({m}))
                 /\ (B (-) SetToBag({m}))[x] = B[x]
           /\ m \in BagToSet(B) /\ B[m] = 1 =>
                 m \notin BagToSet(B (-) SetToBag({m}))
BY DEF BagToSet, SetToBag, (-), IsABag

(* After sending m. *)
AfterSending(m) ==
    /\ IsABag(net') /\ Flight' = Flight \cup {m}
    /\ \A x \in Flight : x # m => net'[x] = net[x]
    /\ m \notin Flight => net'[m] = 1

(* After delivering m. *)
AfterDelivery(m) ==
    /\ IsABag(net') /\ Flight' \subseteq Flight
    /\ \A x \in Flight : x # m => x \in Flight' /\ net'[x] = net[x]
    /\ net[m] = 1 => m \notin Flight'

(* After delivering m and sending the answer a. *)
AfterAnswer(m, a) ==
    /\ IsABag(net') /\ Flight' \subseteq Flight \cup {a}
    /\ a \in Flight'
    /\ \A x \in Flight : x # m => x \in Flight'
    /\ \A x \in Flight : x # m /\ x # a => net'[x] = net[x]

(* Sending a datagram, over the bag net. *)
LEMMA Sending ==
    ASSUME TypedNet, NEW m, net' = Sent(m)
    PROVE  AfterSending(m)
BY BagAdd, Zenon DEF TypedNet, Sent, AfterSending, Flight

(* Delivering a datagram, or losing it. *)
LEMMA Delivering ==
    ASSUME TypedNet, NEW m \in Flight, net' = Delivered(m)
    PROVE  AfterDelivery(m)
BY BagRemove, Zenon DEF TypedNet, Delivered, AfterDelivery, Flight

(* Delivering a request and sending its answer in the same step. *)
LEMMA Answering ==
    ASSUME TypedNet, NEW m \in Flight, NEW a,
           net' = Delivered(m) (+) SetToBag({a})
    PROVE  AfterAnswer(m, a)
<1>0. PICK D : D = Delivered(m)
  BY Zenon
<1>1. /\ IsABag(D) /\ BagToSet(D) \subseteq Flight
      /\ \A x \in Flight : x # m => x \in BagToSet(D) /\ D[x] = net[x]
  BY <1>0, BagRemove, Zenon DEF TypedNet, Delivered, Flight
<1>2. net' = D (+) SetToBag({a})
  BY <1>0, Zenon
<1>3. /\ IsABag(D (+) SetToBag({a}))
      /\ BagToSet(D (+) SetToBag({a})) = BagToSet(D) \cup {a}
      /\ \A x \in BagToSet(D) : x # a => (D (+) SetToBag({a}))[x] = D[x]
  BY <1>1, BagAdd, Zenon
<1>4. /\ IsABag(net') /\ Flight' = BagToSet(D) \cup {a}
      /\ \A x \in BagToSet(D) : x # a => net'[x] = D[x]
  BY <1>2, <1>3, Zenon DEF Flight
<1> QED
  BY <1>1, <1>4, Zenon DEF AfterAnswer

-----------------------------------------------------------------------------
(* The graph. *)

(* A graph draws nothing, has a node for each report and a pair for two    *)
(* edges of which one reported the other. *)
LEMMA Drawing ==
    ASSUME NEW reach \in Reach
    PROVE  Depicts(GenPeersDot(reach), reach)
<1> DEFINE cd == ConnectionData(reach)
           Known(i, j) == <<i, j>> \in DOMAIN cd
           Knows(i, j) == \E m, x \in Macs : Desc[m] = i /\ Desc[x] = j
                             /\ reach[m] # None /\ x \in reach[m]
           pairs == {newPeerPairKey(p[1], p[2]) : p \in DOMAIN cd}
           g == GenPeersDot(reach)
<1>1. DOMAIN cd = {<<Desc[q[1]], Desc[q[2]]>> : q \in Reports(reach)}
  BY Zenon DEF ConnectionData
<1>2. \A p \in DOMAIN cd : cd[p] = "Unknown"
  BY Zenon DEF ConnectionData
<1>3. \A i, j : Known(i, j) <=> Knows(i, j)
  <2> SUFFICES ASSUME NEW i, NEW j PROVE Known(i, j) <=> Knows(i, j)
    BY Zenon
  <2>1. \A q : q \in Reports(reach) <=>
           \E m, x \in Macs : q = <<m, x>> /\ reach[m] # None /\ x \in reach[m]
    BY DEF Reports, Reporting, Reach
  <2>2. Known(i, j) <=> \E q \in Reports(reach) : <<Desc[q[1]], Desc[q[2]]>> = <<i, j>>
    BY <1>1, Zenon
  <2>3. ASSUME NEW m \in Macs, NEW x \in Macs
        PROVE  <<Desc[<<m, x>>[1]], Desc[<<m, x>>[2]]>> = <<Desc[m], Desc[x]>>
    BY Zenon
  <2>4. ASSUME Known(i, j) PROVE Knows(i, j)
    <3>1. PICK q \in Reports(reach) : <<Desc[q[1]], Desc[q[2]]>> = <<i, j>>
      BY <2>2, <2>4, Zenon
    <3>2. PICK m \in Macs, x \in Macs :
             q = <<m, x>> /\ reach[m] # None /\ x \in reach[m]
      BY <2>1, Zenon
    <3> QED
      BY <3>1, <3>2, Zenon
  <2>5. ASSUME Knows(i, j) PROVE Known(i, j)
    <3>1. PICK m \in Macs, x \in Macs : Desc[m] = i /\ Desc[x] = j
                             /\ reach[m] # None /\ x \in reach[m]
      BY <2>5, Zenon
    <3>2. <<m, x>> \in Reports(reach)
      BY <2>1, <3>1, Zenon
    <3> QED
      BY <2>2, <2>3, <3>1, <3>2, Zenon
  <2> QED
    BY <2>4, <2>5, Zenon
<1>4. DOMAIN cd \subseteq Nat \X Nat
  <2>1. \A q \in Reports(reach) : q[1] \in Macs /\ q[2] \in Macs
    BY Zenon DEF Reports, Reporting, Reach
  <2> QED
    BY <1>1, <2>1, ConstantsOK
<1>5. \A i, j : getConnectionType(i, j, cd) = "NoP2P"
  BY <1>2, Zenon DEF getConnectionType
<1>6. /\ g.nodes = {Desc[m] : m \in Reporting(reach)}
      /\ g.pairs = pairs
      /\ g.drawn = {p \in pairs : getConnectionType(p[1], p[2], cd) # "NoP2P"}
  BY Zenon DEF GenPeersDot, NewCommunityP2PVizDatas
<1> HIDE DEF cd, g, Knows
<1>7. g.drawn = {}
  BY <1>5, <1>6, Zenon
<1>8. ASSUME NEW a \in Nat, NEW b \in Nat, a < b
      PROVE  /\ <<a, b>> \in pairs <=> Known(a, b) \/ Known(b, a)
             /\ <<b, a>> \notin pairs
  <2>1. \A p \in DOMAIN cd : p = <<p[1], p[2]>> /\ p[1] \in Nat /\ p[2] \in Nat
    BY <1>4
  <2>2. \A p : p \in pairs <=> \E q \in DOMAIN cd : p = newPeerPairKey(q[1], q[2])
    BY Zenon
  <2>3. ASSUME <<a, b>> \in pairs PROVE Known(a, b) \/ Known(b, a)
    <3>1. PICK q \in DOMAIN cd : <<a, b>> = newPeerPairKey(q[1], q[2])
      BY <2>2, <2>3, Zenon
    <3> QED
      BY <2>1, <3>1, Zenon DEF newPeerPairKey
  <2>4. ASSUME Known(a, b) \/ Known(b, a) PROVE <<a, b>> \in pairs
    <3>1. newPeerPairKey(a, b) = <<a, b>> /\ newPeerPairKey(b, a) = <<a, b>>
      BY <1>8 DEF newPeerPairKey
    <3>2. CASE Known(a, b)
      BY <2>2, <3>1, <3>2, Zenon
    <3>3. CASE Known(b, a)
      BY <2>2, <3>1, <3>3, Zenon
    <3> QED
      BY <2>4, <3>2, <3>3, Zenon
  <2>5. <<b, a>> \notin pairs
    <3> SUFFICES ASSUME NEW q \in DOMAIN cd, <<b, a>> = newPeerPairKey(q[1], q[2])
                 PROVE  FALSE
      BY <2>2, Zenon
    <3>1. q[1] \in Nat /\ q[2] \in Nat
      BY <2>1, Zenon
    <3>2. \/ q[1] < q[2] /\ b = q[1] /\ a = q[2]
          \/ ~(q[1] < q[2]) /\ b = q[2] /\ a = q[1]
      BY Zenon DEF newPeerPairKey
    <3> QED
      BY <1>8, <3>1, <3>2
  <2> QED
    BY <2>3, <2>4, <2>5, Zenon
<1>9. \A a, b \in {Desc[m] : m \in Macs} : a < b =>
         /\ <<a, b>> \in g.pairs <=> Knows(a, b) \/ Knows(b, a)
         /\ <<b, a>> \notin g.pairs
  <2>1. \A m \in Macs : Desc[m] \in Nat
    BY ConstantsOK, Zenon
  <2> HIDE DEF pairs
  <2> QED
    BY <1>3, <1>6, <1>8, <2>1
<1> QED
  BY <1>6, <1>7, <1>9, Zenon DEF g, Knows, Depicts

-----------------------------------------------------------------------------
(* What a step leaves alone. *)

(* The datagrams of type t are the same, as often as before. *)
SameMessages(t) ==
    Messages(t)' = Messages(t) /\ \A x \in Messages(t) : net'[x] = net[x]

(* Sending a datagram of another type leaves those of type t alone. *)
LEMMA SendingKeeps ==
    ASSUME NEW m, NEW t, AfterSending(m), m.type # t
    PROVE  SameMessages(t)
BY Zenon DEF AfterSending, SameMessages, Messages, Flight

(* So does delivering one of another type. *)
LEMMA DeliveringKeeps ==
    ASSUME NEW m, NEW t, AfterDelivery(m), m.type # t
    PROVE  SameMessages(t)
BY Zenon DEF AfterDelivery, SameMessages, Messages, Flight

(* And answering a request, both of other types. *)
LEMMA AnsweringKeeps ==
    ASSUME NEW m, NEW a, NEW t, AfterAnswer(m, a), m.type # t, a.type # t
    PROVE  SameMessages(t)
BY Zenon DEF AfterAnswer, SameMessages, Messages, Flight

(* With the network as it is, so are the datagrams. *)
LEMMA QuietKeeps ==
    ASSUME NEW t, UNCHANGED net
    PROVE  SameMessages(t)
BY Zenon DEF SameMessages, Messages

(* The datagrams of one type have the fields of that type. *)
LEMMA MessageTypes ==
    ASSUME TypedNet
    PROVE  /\ Messages("infos") \subseteq InfosMessages
           /\ Messages("full") \subseteq FullMessages
           /\ \A t, m : m \in Messages(t) => m \in Flight /\ m.type = t
BY Zenon DEF TypedNet, Messages, Flight, Datagrams, InfosMessages, FullMessages,
       PlainMessages

(* The reports, when a step has nothing to do with them. *)
LEMMA ReportsFrame ==
    ASSUME OneReport, PeersReported, SameMessages("infos"),
           UNCHANGED <<peers, hasPendingChanges, reporter, reported, missed,
                       reordered>>,
           lost => lost'
    PROVE  OneReport' /\ PeersReported'
<1>1. OneReport'
  BY DEF OneReport, SameMessages
<1>2. PeersReported'
  BY Zenon DEF PeersReported, SameMessages
<1> QED
  BY <1>1, <1>2, Zenon

(* A request that does not change stays fresh when no older answer comes   *)
(* and its wait, or the datas it would find, are the same. *)
LEMMA FreshFrame ==
    ASSUME NEW r \in Requests, FreshAnswer(r), req'[r] = req[r],
           epoch \in Nat, epoch' \in Nat, epoch <= epoch',
           req[r] \in BegunRequests \cup {NoRequest},
           Messages("full")' \subseteq Messages("full"),
           \/ IsWaitingCommunityDatas'
           \/ UNCHANGED <<IsWaitingCommunityDatas, datas>>
    PROVE  FreshAnswer(r)'
<1> SUFFICES ASSUME req[r].at \notin {"none", "error"}, req[r].alone
             PROVE  FreshAnswer(r)'
  BY Zenon DEF FreshAnswer
<1>1. req[r].epoch \in Nat
  BY DEF BegunRequests, NoRequest
<1>2. req[r].epoch <= epoch
  BY Zenon DEF FreshAnswer
<1>3. req[r].epoch <= epoch'
  BY <1>1, <1>2
<1> QED
  BY <1>3, Zenon DEF FreshAnswer, FreshDatas

(* All of them, when a step changes no request. *)
LEMMA FreshFrames ==
    ASSUME FreshAnswers, TypedRequests, UNCHANGED req,
           epoch \in Nat, epoch' \in Nat, epoch <= epoch',
           Messages("full")' \subseteq Messages("full"),
           \/ IsWaitingCommunityDatas'
           \/ UNCHANGED <<IsWaitingCommunityDatas, datas>>
    PROVE  FreshAnswers'
BY FreshFrame, Zenon DEF FreshAnswers, TypedRequests

(* The flags, when a step has nothing to do with them. *)
LEMMA AwaitedFrame ==
    ASSUME FullAwaited, LeasesAwaited,
           UNCHANGED <<req, IsWaitingCommunityDatas, IsWaitingForLeasesInfos>>,
           \A t \in {"fullRequest", "full", "leasesRequest", "leases"} :
               SameMessages(t),
           lost => lost', refused => refused', overtaken => overtaken'
    PROVE  FullAwaited' /\ LeasesAwaited'
<1>1. FullAwaited'
  BY Zenon DEF FullAwaited, SameMessages, At
<1>2. LeasesAwaited'
  BY Zenon DEF LeasesAwaited, SameMessages, At
<1> QED
  BY <1>1, <1>2, Zenon

(* Graphs stay as they are. *)
LEMMA GraphsFrame ==
    ASSUME GraphsMade, UNCHANGED req
    PROVE  GraphsMade'
BY Zenon DEF GraphsMade

-----------------------------------------------------------------------------
(* The peers and the reports. *)

(* Initially nothing is under way. *)
THEOREM InitInv == Init => IInv
<1> SUFFICES ASSUME Init PROVE IInv
  BY Zenon
<1>1. IsABag(net) /\ Flight = {}
  BY Zenon DEF Init, EmptyBag, SetToBag, IsABag, Flight, BagToSet
<1>2. \A t : Messages(t) = {}
  BY <1>1, Zenon DEF Messages, Flight
<1>3. Typed
  <2>1. TypedEdge
    BY Zenon DEF Init, TypedEdge, IdleReporter
  <2>2. TypedRequests
    BY Zenon DEF Init, TypedRequests, NoRequest
  <2>3. TypedNet
    BY <1>1, Zenon DEF TypedNet
  <2>4. TypedSupernode
    BY Zenon DEF Init, TypedSupernode, Reach
  <2>5. TypedHistory
    BY Zenon DEF Init, TypedHistory
  <2> QED
    BY <2>1, <2>2, <2>3, <2>4, <2>5, Zenon DEF Typed
<1>4. FullAwaited /\ LeasesAwaited
  BY Zenon DEF Init, FullAwaited, LeasesAwaited, At
<1>5. OneReport /\ PeersReported
  BY <1>2, ConstantsOK, Zenon DEF Init, OneReport, PeersReported, IdleReporter
<1>6. FreshAnswers /\ GraphsMade
  BY Zenon DEF Init, FreshAnswers, FreshAnswer, GraphsMade
<1> QED
  BY <1>3, <1>4, <1>5, <1>6, Zenon DEF IInv

(* A change while the flag is about to be cleared counts as missed; any    *)
(* other leaves the flag set. *)
LEMMA ChangePeerStep ==
    ASSUME IInv, NEW m \in Macs \ {Me}, ChangePeer(m)
    PROVE  IInv'
<1> USE DEF IInv, Typed
<1>1. Typed'
  BY Zenon DEF ChangePeer, TypedEdge, TypedRequests, TypedNet, Flight, TypedSupernode,
         TypedHistory, snVars
<1>2. \A t : SameMessages(t)
  BY QuietKeeps, Zenon DEF ChangePeer
<1>3. FullAwaited' /\ LeasesAwaited'
  BY <1>2, AwaitedFrame, Zenon DEF ChangePeer
<1>4. OneReport'
  BY <1>2, Zenon DEF ChangePeer, OneReport, SameMessages
<1>5. PeersReported'
  BY Zenon DEF ChangePeer, PeersReported
<1>6. FreshAnswers'
  BY <1>2, FreshFrames DEF ChangePeer, snVars, SameMessages, TypedSupernode
<1>7. GraphsMade'
  BY GraphsFrame, Zenon DEF ChangePeer
<1> QED
  BY <1>1, <1>3, <1>4, <1>5, <1>6, <1>7, Zenon

(* What sendP2PInfos reads is what the peers are. *)
LEMMA ReadP2PInfosStep ==
    ASSUME IInv, ReadP2PInfos
    PROVE  IInv'
<1> USE DEF IInv, Typed
<1>1. Typed'
  BY Zenon DEF ReadP2PInfos, TypedEdge, TypedRequests, TypedNet, Flight,
         TypedSupernode, TypedHistory, snVars, histVars
<1>2. \A t : SameMessages(t)
  BY QuietKeeps, Zenon DEF ReadP2PInfos
<1>3. FullAwaited' /\ LeasesAwaited'
  BY <1>2, AwaitedFrame, Zenon DEF ReadP2PInfos, histVars
<1>4. OneReport'
  BY <1>2, Zenon DEF ReadP2PInfos, OneReport, SameMessages, histVars
<1>5. PeersReported'
  BY Zenon DEF ReadP2PInfos, PeersReported, histVars
<1>6. FreshAnswers'
  BY <1>2, FreshFrames DEF ReadP2PInfos, snVars, SameMessages, TypedSupernode
<1>7. GraphsMade'
  BY GraphsFrame, Zenon DEF ReadP2PInfos
<1> QED
  BY <1>1, <1>3, <1>4, <1>5, <1>6, <1>7, Zenon

(* The flag is cleared while the peers are still what was read. *)
LEMMA ClearPendingChangesStep ==
    ASSUME IInv, ClearPendingChanges
    PROVE  IInv'
<1> USE DEF IInv, Typed
<1>1. Typed'
  BY Zenon DEF ClearPendingChanges, TypedEdge, TypedRequests, TypedNet, Flight,
         TypedSupernode, TypedHistory, snVars, histVars
<1>2. \A t : SameMessages(t)
  BY QuietKeeps, Zenon DEF ClearPendingChanges
<1>3. FullAwaited' /\ LeasesAwaited'
  BY <1>2, AwaitedFrame, Zenon DEF ClearPendingChanges, histVars
<1>4. OneReport'
  BY <1>2, Zenon DEF ClearPendingChanges, OneReport, SameMessages, histVars
<1>5. PeersReported'
  BY Zenon DEF ClearPendingChanges, PeersReported, histVars, TypedEdge
<1>6. FreshAnswers'
  BY <1>2, FreshFrames DEF ClearPendingChanges, snVars, SameMessages, TypedSupernode
<1>7. GraphsMade'
  BY GraphsFrame, Zenon DEF ClearPendingChanges
<1> QED
  BY <1>1, <1>3, <1>4, <1>5, <1>6, <1>7

(* A report that is sent while none is under way is the only one. *)
LEMMA SendP2PInfosStep ==
    ASSUME IInv, SendP2PInfos
    PROVE  IInv'
<1> USE DEF IInv, Typed
<1> DEFINE m == [type |-> "infos", to |-> reporter.infos]
<1>0. /\ m \in InfosMessages /\ m.type = "infos" /\ m.to = reporter.infos
  BY Zenon DEF TypedEdge, InfosMessages
<1>1. /\ reporter.at = "send" /\ reporter' = IdleReporter
      /\ UNCHANGED <<peers, hasPendingChanges, IsWaitingCommunityDatas,
                     IsWaitingForLeasesInfos, datas, LastLeasesInfos, req,
                     reported, epoch, plan, missed, refused, overtaken>>
  BY Zenon DEF SendP2PInfos, snVars
<1>2. \/ net' = Sent(m) /\ reordered' = (reordered \/ Messages("infos") # {})
         /\ lost' = lost
      \/ lost' = TRUE /\ UNCHANGED <<net, reordered>>
  BY Zenon DEF SendP2PInfos
<1> HIDE DEF m
<1>3. CASE /\ net' = Sent(m) /\ lost' = lost
           /\ reordered' = (reordered \/ Messages("infos") # {})
  <2>1. AfterSending(m)
    BY <1>3, Sending, Zenon
  <2>2. Typed'
    BY <1>0, <1>1, <1>3, <2>1, Zenon
       DEF TypedEdge, TypedRequests, TypedNet, TypedSupernode, TypedHistory,
           AfterSending, IdleReporter, Datagrams
  <2>3. \A t : t # "infos" => SameMessages(t)
    BY <1>0, <2>1, SendingKeeps, Zenon
  <2>4. FullAwaited' /\ LeasesAwaited'
    BY <1>1, <1>3, <2>3, AwaitedFrame, Zenon
  <2>5. ASSUME ~reordered'
        PROVE  Messages("infos") = {} /\ Messages("infos")' = {m} /\ net'[m] = 1
    BY <1>0, <1>3, <2>1, <2>5, Zenon DEF AfterSending, Messages, Flight
  <2>6. OneReport'
    BY <2>5, Zenon DEF OneReport
  <2>7. PeersReported'
    BY <1>0, <1>1, <1>3, <2>5, Zenon DEF PeersReported, IdleReporter
  <2>8. FreshAnswers'
    BY <1>1, <2>3, FreshFrames DEF SameMessages, TypedSupernode
  <2> QED
    BY <1>1, <2>2, <2>4, <2>6, <2>7, <2>8, GraphsFrame, Zenon
<1>4. CASE lost' = TRUE /\ UNCHANGED <<net, reordered>>
  <2>1. \A t : SameMessages(t)
    BY <1>4, QuietKeeps, Zenon
  <2>2. Typed'
    BY <1>1, <1>4, Zenon
       DEF TypedEdge, TypedRequests, TypedNet, TypedSupernode, TypedHistory,
           IdleReporter, Flight
  <2>3. FullAwaited' /\ LeasesAwaited'
    BY <1>1, <1>4, <2>1, AwaitedFrame, Zenon
  <2>4. OneReport' /\ PeersReported'
    BY <1>4, <2>1, Zenon DEF OneReport, PeersReported, SameMessages
  <2>5. FreshAnswers'
    BY <1>1, <2>1, FreshFrames DEF SameMessages, TypedSupernode
  <2> QED
    BY <1>1, <2>2, <2>3, <2>4, <2>5, GraphsFrame, Zenon
<1> QED
  BY <1>2, <1>3, <1>4, Zenon

-----------------------------------------------------------------------------
(* The supernode and the network. *)

(* Storing a report makes the epoch later, and the reports typed. *)
LEMMA Storing ==
    ASSUME TypedSupernode, NEW m \in Macs, NEW infos \in SUBSET Macs,
           SetP2PInfosFor(m, infos)
    PROVE  /\ TypedSupernode' /\ epoch <= epoch'
           /\ reported'[m] = infos
           /\ \A n \in Macs : n # m => reported'[n] = reported[n]
BY DEF TypedSupernode, SetP2PInfosFor, Reach

(* The report of this edge is stored: it was the only one under way. *)
LEMMA HandleP2PStateInfoStep ==
    ASSUME IInv, HandleP2PStateInfo
    PROVE  IInv'
<1> USE DEF IInv, Typed
<1>1. PICK m \in Messages("infos") :
        /\ SetP2PInfosFor(Me, m.to) /\ net' = Delivered(m)
        /\ UNCHANGED <<edgeVars, req, histVars>>
  BY Zenon DEF HandleP2PStateInfo
<1>2. m \in Flight /\ m.type = "infos" /\ m.to \in SUBSET Macs
  BY MessageTypes, Zenon DEF InfosMessages
<1>3. AfterDelivery(m)
  BY <1>1, <1>2, Delivering, Zenon
<1>4. TypedSupernode' /\ epoch <= epoch' /\ reported'[Me] = m.to
  BY <1>1, <1>2, Storing, ConstantsOK, Zenon
<1>5. Typed'
  BY <1>1, <1>3, <1>4
     DEF TypedEdge, TypedRequests, TypedNet, TypedHistory, AfterDelivery,
         edgeVars, histVars
<1>6. \A t : t # "infos" => SameMessages(t)
  BY <1>2, <1>3, DeliveringKeeps, Zenon
<1>7. FullAwaited' /\ LeasesAwaited'
  BY <1>1, <1>6, AwaitedFrame, Zenon DEF edgeVars, histVars
<1>8. ASSUME ~reordered PROVE Messages("infos")' = {}
  BY <1>2, <1>3, <1>8, Zenon DEF OneReport, AfterDelivery, Messages, Flight
<1>9. OneReport'
  BY <1>1, <1>8, Zenon DEF OneReport, histVars
<1>10. PeersReported'
  BY <1>1, <1>4, <1>8, Zenon DEF PeersReported, histVars, edgeVars
<1>11. FreshAnswers'
  BY <1>1, <1>4, <1>6, FreshFrames, Zenon DEF SameMessages, TypedSupernode, edgeVars
<1> QED
  BY <1>1, <1>5, <1>7, <1>9, <1>10, <1>11, GraphsFrame, Zenon

(* The report of another edge is stored. *)
LEMMA OtherReportsStep ==
    ASSUME IInv, NEW m \in Macs \ {Me}, NEW infos \in SUBSET {Me},
           OtherReports(m, infos)
    PROVE  IInv'
<1> USE DEF IInv, Typed
<1>1. /\ SetP2PInfosFor(m, infos)
      /\ UNCHANGED <<edgeVars, req, net, histVars>>
  BY Zenon DEF OtherReports
<1>2. infos \in SUBSET Macs
  BY ConstantsOK, Zenon
<1>3. TypedSupernode' /\ epoch <= epoch' /\ reported'[Me] = reported[Me]
  BY <1>1, <1>2, Storing, ConstantsOK, Zenon
<1>4. \A t : SameMessages(t)
  BY <1>1, QuietKeeps, Zenon
<1>5. Typed'
  BY <1>1, <1>3
     DEF TypedEdge, TypedRequests, TypedNet, TypedHistory, Flight, edgeVars, histVars
<1>6. FullAwaited' /\ LeasesAwaited'
  BY <1>1, <1>4, AwaitedFrame, Zenon DEF edgeVars, histVars
<1>7. OneReport' /\ PeersReported'
  BY <1>1, <1>3, <1>4, Zenon DEF OneReport, PeersReported, SameMessages, edgeVars,
     histVars
<1>8. FreshAnswers'
  BY <1>1, <1>3, <1>4, FreshFrames, Zenon DEF SameMessages, TypedSupernode, edgeVars
<1> QED
  BY <1>1, <1>5, <1>6, <1>7, <1>8, GraphsFrame, Zenon

(* An answer that is made now is as new as any request. *)
LEMMA HandleFullStateRequestStep ==
    ASSUME IInv, HandleFullStateRequest
    PROVE  IInv'
<1> USE DEF IInv, Typed
<1> DEFINE a == [type |-> "full", reach |-> reported, epoch |-> epoch]
<1>1. PICK m \in Messages("fullRequest") :
        /\ net' = Delivered(m) (+) SetToBag({a})
        /\ UNCHANGED <<edgeVars, req, snVars, histVars>>
  BY Zenon DEF HandleFullStateRequest
<1>2. m \in Flight /\ m.type = "fullRequest"
  BY MessageTypes, Zenon
<1>3. a \in FullMessages /\ a.type = "full" /\ a.epoch = epoch
  BY Zenon DEF FullMessages, TypedSupernode
<1> HIDE DEF a
<1>4. AfterAnswer(m, a)
  BY <1>1, <1>2, Answering, Zenon
<1>5. Typed'
  BY <1>1, <1>3, <1>4
     DEF TypedEdge, TypedRequests, TypedNet, TypedSupernode, TypedHistory,
         AfterAnswer, Datagrams, edgeVars, histVars, snVars
<1>6. \A t : t \notin {"fullRequest", "full"} => SameMessages(t)
  BY <1>2, <1>3, <1>4, AnsweringKeeps, Zenon
<1>7. Messages("full")' \subseteq Messages("full") \cup {a} /\ a \in Messages("full")'
  BY <1>3, <1>4, Zenon DEF AfterAnswer, Messages, Flight
<1>8. FullAwaited'
  BY <1>7, Zenon DEF FullAwaited
<1>9. LeasesAwaited'
  BY <1>1, <1>6 DEF LeasesAwaited, SameMessages, At, edgeVars, histVars
<1>10. OneReport' /\ PeersReported'
  BY <1>1, <1>6, ReportsFrame, Zenon DEF edgeVars, histVars, snVars
<1>11. FreshAnswers'
  <2> SUFFICES ASSUME NEW r \in Requests,
                      req[r].at \notin {"none", "error"}, req[r].alone
               PROVE  FreshAnswer(r)'
    BY <1>1, Zenon DEF FreshAnswers, FreshAnswer
  <2>1. FreshAnswer(r) /\ req[r].epoch <= epoch
    BY Zenon DEF FreshAnswers, FreshAnswer
  <2>2. req[r].epoch \in Nat
    BY DEF TypedRequests, BegunRequests, NoRequest
  <2>3. a.epoch >= req[r].epoch
    BY <1>3, <2>1, <2>2, Zenon DEF TypedSupernode
  <2> QED
    BY <1>1, <1>7, <2>1, <2>3, Zenon DEF FreshAnswer, FreshDatas, edgeVars, snVars
<1> QED
  BY <1>1, <1>5, <1>8, <1>9, <1>10, <1>11, GraphsFrame, Zenon

(* The leases are answered with the leases. *)
LEMMA HandleLeasesRequestStep ==
    ASSUME IInv, HandleLeasesRequest
    PROVE  IInv'
<1> USE DEF IInv, Typed
<1> DEFINE a == [type |-> "leases"]
<1>1. PICK m \in Messages("leasesRequest") :
        /\ net' = Delivered(m) (+) SetToBag({a})
        /\ UNCHANGED <<edgeVars, req, snVars, histVars>>
  BY Zenon DEF HandleLeasesRequest
<1>2. m \in Flight /\ m.type = "leasesRequest"
  BY MessageTypes, Zenon
<1>3. a \in PlainMessages /\ a.type = "leases"
  BY Zenon DEF PlainMessages
<1> HIDE DEF a
<1>4. AfterAnswer(m, a)
  BY <1>1, <1>2, Answering, Zenon
<1>5. Typed'
  BY <1>1, <1>3, <1>4
     DEF TypedEdge, TypedRequests, TypedNet, TypedSupernode, TypedHistory,
         AfterAnswer, Datagrams, edgeVars, histVars, snVars
<1>6. \A t : t \notin {"leasesRequest", "leases"} => SameMessages(t)
  BY <1>2, <1>3, <1>4, AnsweringKeeps, Zenon
<1>7. a \in Messages("leases")'
  BY <1>3, <1>4, Zenon DEF AfterAnswer, Messages, Flight
<1>8. FullAwaited'
  BY <1>1, <1>6 DEF FullAwaited, SameMessages, At, edgeVars, histVars
<1>9. LeasesAwaited'
  BY <1>7, Zenon DEF LeasesAwaited
<1>10. OneReport' /\ PeersReported'
  BY <1>1, <1>6, ReportsFrame, Zenon DEF edgeVars, histVars, snVars
<1>11. FreshAnswers'
  BY <1>1, <1>6, FreshFrames DEF SameMessages, TypedSupernode, edgeVars, snVars
<1> QED
  BY <1>1, <1>5, <1>8, <1>9, <1>10, <1>11, GraphsFrame, Zenon

(* A loss excuses what it spoils. *)
LEMMA LoseStep ==
    ASSUME IInv, Lose
    PROVE  IInv'
<1> USE DEF IInv, Typed
<1>1. PICK m \in Flight :
        /\ net' = Delivered(m) /\ lost' = TRUE
        /\ UNCHANGED <<edgeVars, req, snVars, plan, missed, reordered, refused,
                       overtaken>>
  BY Zenon DEF Lose, Flight
<1>2. AfterDelivery(m)
  BY <1>1, Delivering, Zenon
<1>3. Typed'
  BY <1>1, <1>2, Zenon
     DEF TypedEdge, TypedRequests, TypedNet, TypedSupernode, TypedHistory,
         AfterDelivery, edgeVars, snVars
<1>4. FullAwaited' /\ LeasesAwaited' /\ PeersReported'
  BY <1>1, Zenon DEF FullAwaited, LeasesAwaited, PeersReported
<1>5. \A t : Messages(t)' \subseteq Messages(t)
  BY <1>2, Zenon DEF AfterDelivery, Messages, Flight
<1>6. OneReport'
  <2> SUFFICES ASSUME ~reordered, NEW n \in Messages("infos")'
               PROVE  net'[n] = 1 /\ \A k \in Messages("infos")' : k = n
    BY <1>1, Zenon DEF OneReport
  <2>1. net[n] = 1 /\ \A k \in Messages("infos") : k = n
    BY <1>5, Zenon DEF OneReport
  <2>2. n # m /\ n \in Flight
    BY <1>2, <1>5, <2>1, Zenon DEF AfterDelivery, Messages, Flight
  <2> QED
    BY <1>2, <1>5, <2>1, <2>2, Zenon DEF AfterDelivery
<1>7. FreshAnswers'
  BY <1>1, <1>5, FreshFrames DEF TypedSupernode, edgeVars, snVars
<1> QED
  BY <1>1, <1>3, <1>4, <1>6, <1>7, GraphsFrame, Zenon

-----------------------------------------------------------------------------
(* handleUDP of the edge. *)

(* An answer that is accepted clears the flag and brings datas that are    *)
(* new enough for every request; one that is refused is an excuse. *)
LEMMA HandleFullStateStep ==
    ASSUME IInv, HandleFullState
    PROVE  IInv'
<1> USE DEF IInv, Typed
<1>1. PICK m \in Messages("full") :
        /\ net' = Delivered(m)
        /\ \/ refused' = TRUE /\ UNCHANGED <<datas, IsWaitingCommunityDatas>>
           \/ /\ datas' = [reach |-> m.reach, epoch |-> m.epoch]
              /\ IsWaitingCommunityDatas' = FALSE
              /\ UNCHANGED refused
        /\ UNCHANGED <<peers, hasPendingChanges, reporter,
                       IsWaitingForLeasesInfos, LastLeasesInfos, req, reported,
                       epoch, plan, missed, reordered, lost, overtaken>>
  BY Zenon DEF HandleFullState, snVars
<1>2. m \in Flight /\ m.type = "full" /\ m.reach \in Reach /\ m.epoch \in Nat
  BY MessageTypes, Zenon DEF FullMessages
<1>3. AfterDelivery(m)
  BY <1>1, <1>2, Delivering, Zenon
<1>4. \A t : t # "full" => SameMessages(t)
  BY <1>2, <1>3, DeliveringKeeps, Zenon
<1>5. Messages("full")' \subseteq Messages("full")
  BY <1>3, Zenon DEF AfterDelivery, Messages, Flight
<1>6. TypedRequests' /\ TypedNet' /\ TypedSupernode'
  BY <1>1, <1>3, Zenon DEF TypedRequests, TypedNet, TypedSupernode, AfterDelivery
<1>7. LeasesAwaited'
  BY <1>1, <1>4 DEF LeasesAwaited, SameMessages, At
<1>8. OneReport' /\ PeersReported'
  BY <1>1, <1>4, ReportsFrame, Zenon
<1>9. GraphsMade'
  BY <1>1, GraphsFrame, Zenon
<1>10. CASE refused' = TRUE /\ UNCHANGED <<datas, IsWaitingCommunityDatas>>
  <2>1. TypedEdge' /\ TypedHistory'
    BY <1>1, <1>10 DEF TypedEdge, TypedHistory
  <2>2. FullAwaited'
    BY <1>10, Zenon DEF FullAwaited
  <2>3. FreshAnswers'
    BY <1>1, <1>5, <1>10, FreshFrames DEF TypedSupernode
  <2> QED
    BY <1>6, <1>7, <1>8, <1>9, <2>1, <2>2, <2>3, Zenon
<1>11. CASE /\ datas' = [reach |-> m.reach, epoch |-> m.epoch]
            /\ IsWaitingCommunityDatas' = FALSE
            /\ UNCHANGED refused
  <2>1. datas' \in Datas /\ datas'.epoch = m.epoch /\ datas' # None
    BY <1>2, <1>11, ConstantsOK DEF Datas
  <2>2. TypedEdge' /\ TypedHistory'
    BY <1>1, <1>11, <2>1, Zenon DEF TypedEdge, TypedHistory
  <2>3. FullAwaited'
    BY <1>11, Zenon DEF FullAwaited
  <2>4. FreshAnswers'
    <3> SUFFICES ASSUME NEW r \in Requests PROVE FreshAnswer(r)'
      BY Zenon DEF FreshAnswers
    <3>1. FreshAnswer(r) /\ req'[r] = req[r] /\ epoch' = epoch
      BY <1>1, Zenon DEF FreshAnswers
    <3>2. FreshDatas(req[r].epoch)' <=> m.epoch >= req[r].epoch
      BY <1>1, <2>1, Zenon DEF FreshDatas
    <3> QED
      BY <1>5, <3>1, <3>2, Zenon DEF FreshAnswer
  <2> QED
    BY <1>6, <1>7, <1>8, <1>9, <2>2, <2>3, <2>4
<1> QED
  BY <1>1, <1>10, <1>11, Zenon

(* An answer with leases clears the flag, or comes before it is set. *)
LEMMA HandleLeasesInfosStep ==
    ASSUME IInv, HandleLeasesInfos
    PROVE  IInv'
<1> USE DEF IInv, Typed
<1>1. PICK m \in Messages("leases") :
        /\ net' = Delivered(m) /\ LastLeasesInfos' = "leases"
        /\ IsWaitingForLeasesInfos' = FALSE
        /\ overtaken' = (overtaken \/ \E r \in Requests :
                            req[r].kind = "leases" /\ req[r].at = "set")
        /\ UNCHANGED <<peers, hasPendingChanges, reporter, datas,
                       IsWaitingCommunityDatas, req, reported, epoch, plan,
                       missed, reordered, lost, refused>>
  BY Zenon DEF HandleLeasesInfos, snVars
<1>2. m \in Flight /\ m.type = "leases"
  BY MessageTypes, Zenon
<1>3. AfterDelivery(m)
  BY <1>1, <1>2, Delivering, Zenon
<1>4. \A t : t # "leases" => SameMessages(t)
  BY <1>2, <1>3, DeliveringKeeps, Zenon
<1>5. Typed'
  BY <1>1, <1>3, Zenon
     DEF TypedEdge, TypedRequests, TypedNet, TypedSupernode, TypedHistory,
         AfterDelivery
<1>6. FullAwaited'
  BY <1>1, <1>4 DEF FullAwaited, SameMessages, At
<1>7. LeasesAwaited'
  BY <1>1, Zenon DEF LeasesAwaited, At
<1>8. OneReport' /\ PeersReported'
  BY <1>1, <1>4, ReportsFrame, Zenon
<1>9. FreshAnswers'
  BY <1>1, <1>4, FreshFrames DEF SameMessages, TypedSupernode
<1> QED
  BY <1>1, <1>5, <1>6, <1>7, <1>8, <1>9, GraphsFrame, Zenon

(* What clearing the flag tells the request r, whose record becomes c. *)
Told(r, c) ==
    \/ c = req[r] /\ req[r].at \in {"none", "done", "error"}
    \/ /\ c \in BegunRequests /\ c.cleared
       /\ c.at = req[r].at /\ c.kind = req[r].kind
       /\ c.at \notin {"none", "done", "error"}
       /\ c.alone = req[r].alone /\ c.epoch = req[r].epoch

(* Every request under way is told. *)
LEMMA Telling ==
    ASSUME TypedRequests, NEW r \in Requests
    PROVE  Told(r, Cleared(req)[r]) /\ Cleared(req)[r] \in BegunRequests \cup {NoRequest}
<1>1. CASE req[r].at \in {"none", "done", "error"}
  BY <1>1, Zenon DEF Told, Cleared, TypedRequests
<1>2. CASE req[r].at \notin {"none", "done", "error"}
  <2>1. req[r] \in BegunRequests
    BY <1>2 DEF TypedRequests, NoRequest
  <2>2. Cleared(req)[r] = [req[r] EXCEPT !.cleared = TRUE]
    BY <1>2, Zenon DEF Cleared
  <2> QED
    BY <1>2, <2>1, <2>2, Zenon DEF Told, BegunRequests
<1> QED
  BY <1>1, <1>2, Zenon

(* A request that is told has nothing to be fresh about until it is done. *)
LEMMA ToldFresh ==
    ASSUME NEW r \in Requests, FreshAnswer(r), Told(r, req'[r]),
           UNCHANGED <<epoch, net, datas>>
    PROVE  FreshAnswer(r)'
BY Zenon DEF FreshAnswer, Told, Messages

(* A registration clears the flag of all requests. *)
LEMMA HandleRegisterResponseStep ==
    ASSUME IInv, HandleRegisterResponse
    PROVE  IInv'
<1> USE DEF IInv, Typed
<1>1. /\ IsWaitingCommunityDatas' = FALSE /\ req' = Cleared(req)
      /\ UNCHANGED <<peers, hasPendingChanges, reporter, IsWaitingForLeasesInfos,
                     datas, LastLeasesInfos, net, reported, epoch, plan, missed,
                     reordered, lost, refused, overtaken>>
  BY Zenon DEF HandleRegisterResponse, snVars
<1>2. \A r \in Requests :
        Told(r, req'[r]) /\ req'[r] \in BegunRequests \cup {NoRequest}
  BY <1>1, Telling, Zenon
<1>3. TypedRequests'
  BY <1>1, <1>2, Zenon DEF TypedRequests, Cleared
<1>4. Typed'
  BY <1>1, <1>3, Zenon DEF TypedEdge, TypedNet, TypedSupernode, TypedHistory, Flight
<1>5. \A t : SameMessages(t)
  BY <1>1, QuietKeeps, Zenon
<1>6. FullAwaited'
  BY <1>1, Zenon DEF FullAwaited
<1>7. LeasesAwaited'
  BY <1>1, <1>2, <1>5, Zenon DEF LeasesAwaited, Told, At, SameMessages
<1>8. OneReport' /\ PeersReported'
  BY <1>1, <1>5, ReportsFrame, Zenon
<1>9. FreshAnswers'
  BY <1>1, <1>2, ToldFresh, Zenon DEF FreshAnswers
<1>10. GraphsMade'
  BY <1>2, Zenon DEF GraphsMade, Told
<1> QED
  BY <1>4, <1>6, <1>7, <1>8, <1>9, <1>10, Zenon

-----------------------------------------------------------------------------
(* The HTTP requests. *)

(* The other requests stay as they are. *)
Others(r) == \A s \in Requests : s # r => req'[s] = req[s]

(* The request r goes on to pc. *)
Moved(r, pc) ==
    /\ TypedRequests' /\ Others(r)
    /\ req'[r].at = pc /\ req'[r].kind = req[r].kind
    /\ req'[r].alone = req[r].alone /\ req'[r].cleared = req[r].cleared
    /\ req'[r].epoch = req[r].epoch /\ req'[r].result = req[r].result

(* A request that has begun may go anywhere. *)
LEMMA Moving ==
    ASSUME TypedRequests, NEW r \in Requests, req[r].at # "none",
           NEW pc \in Steps, Goto(r, pc)
    PROVE  Moved(r, pc)
<1>1. req[r] \in BegunRequests
  BY DEF TypedRequests, NoRequest
<1>2. req'[r] = [req[r] EXCEPT !.at = pc] /\ Others(r)
  BY Zenon DEF Goto, TypedRequests, Others
<1>3. req'[r] \in BegunRequests
  BY <1>1, <1>2, Zenon DEF BegunRequests
<1>4. TypedRequests'
  BY <1>2, <1>3, Zenon DEF TypedRequests, Goto, Others
<1> QED
  BY <1>1, <1>2, <1>4, Zenon DEF Moved, BegunRequests

(* A step of one request changes nothing of the reports, and nothing of    *)
(* the other requests. *)
LEMMA RequestStep ==
    ASSUME IInv, NEW r \in Requests, Others(r),
           UNCHANGED <<peers, hasPendingChanges, reporter, datas,
                       LastLeasesInfos, reported, epoch, plan, missed,
                       reordered, refused, overtaken>>,
           IsWaitingCommunityDatas' \/ UNCHANGED IsWaitingCommunityDatas,
           IsWaitingCommunityDatas' \in BOOLEAN,
           IsWaitingForLeasesInfos' \in BOOLEAN,
           lost => lost', lost' \in BOOLEAN,
           TypedRequests', TypedNet', SameMessages("infos"),
           Messages("full")' \subseteq Messages("full"),
           FullAwaited', LeasesAwaited', FreshAnswer(r)',
           req'[r].at = "done" /\ req'[r].kind = "dot" /\ req'[r].result # None =>
               /\ req'[r].result.reach \in Reach
               /\ req'[r].result = DotOf(req'[r].result)
    PROVE  IInv'
<1>1. Typed'
  BY Zenon DEF IInv, Typed, TypedEdge, TypedSupernode, TypedHistory
<1>2. OneReport' /\ PeersReported'
  BY ReportsFrame, Zenon DEF IInv
<1>3. FreshAnswers'
  <2> SUFFICES ASSUME NEW s \in Requests, s # r PROVE FreshAnswer(s)'
    BY Zenon DEF FreshAnswers
  <2>1. FreshAnswer(s) /\ req'[s] = req[s] /\ req[s] \in BegunRequests \cup {NoRequest}
    BY Zenon DEF IInv, Typed, FreshAnswers, Others, TypedRequests
  <2>2. epoch \in Nat /\ epoch' \in Nat /\ epoch <= epoch'
    BY DEF IInv, Typed, TypedSupernode
  <2> QED
    BY <2>1, <2>2, FreshFrame, Zenon
<1>4. GraphsMade'
  BY Zenon DEF IInv, GraphsMade, Others
<1> QED
  BY <1>1, <1>2, <1>3, <1>4, Zenon DEF IInv

(* What a request step that only moves r leaves alone. *)
Silent ==
    UNCHANGED <<peers, hasPendingChanges, reporter, datas, LastLeasesInfos,
                reported, epoch, plan, missed, reordered, refused, overtaken,
                net, lost>>

(* Such a step, for a request that is not answered by it. *)
LEMMA SilentStep ==
    ASSUME IInv, NEW r \in Requests, Others(r), Silent, TypedRequests',
           IsWaitingCommunityDatas' \/ UNCHANGED IsWaitingCommunityDatas,
           IsWaitingCommunityDatas' \in BOOLEAN,
           IsWaitingForLeasesInfos' \in BOOLEAN,
           FullAwaited', LeasesAwaited', FreshAnswer(r)',
           req'[r].at # "done"
    PROVE  IInv'
<1>1. TypedNet' /\ lost' \in BOOLEAN
  BY Zenon DEF IInv, Typed, TypedNet, TypedHistory, Flight, Silent
<1>2. SameMessages("infos") /\ SameMessages("full")
  BY QuietKeeps, Zenon DEF Silent
<1>3. Messages("full")' \subseteq Messages("full")
  BY <1>2, Zenon DEF SameMessages
<1> QED
  BY <1>1, <1>2, <1>3, RequestStep, Zenon DEF Silent

(* While a request is neither about to send nor answered, being fresh      *)
(* only concerns the answers under way. *)
LEMMA MovedEarly ==
    ASSUME NEW r \in Requests, FreshAnswer(r), NEW pc \in Steps, Moved(r, pc),
           req[r].at \notin {"none", "done", "error"}, UNCHANGED epoch,
           Messages("full")' \subseteq Messages("full"),
           \/ pc \in {"check", "set", "error"}
           \/ req[r].kind \notin {"json", "dot"} /\ pc # "done"
           \/ IsWaitingCommunityDatas' /\ pc # "done"
    PROVE  FreshAnswer(r)'
BY Zenon DEF FreshAnswer, Moved, Steps

(* A request arrives. *)
LEMMA ArriveStep ==
    ASSUME IInv, NEW r \in Requests, NEW kind \in Kinds, Arrive(r, kind)
    PROVE  IInv'
<1> DEFINE q == [kind |-> kind, at |-> "check", late |-> FALSE,
                 alone |-> Quiet, cleared |-> FALSE, epoch |-> epoch,
                 result |-> None]
<1>1. req' = [req EXCEPT ![r] = q] /\ req[r].at = "none"
      /\ UNCHANGED <<edgeVars, net, snVars, histVars>>
  BY Zenon DEF Arrive
<1>2. TypedRequests /\ TypedSupernode /\ TypedEdge
  BY Zenon DEF IInv, Typed
<1>3. q \in BegunRequests
  BY <1>2, Zenon DEF BegunRequests, Steps, Results, TypedSupernode, Quiet
<1>4. q.at = "check" /\ q.alone = Quiet /\ q.epoch = epoch
  BY Zenon
<1> HIDE DEF q
<1>5. req'[r] = q /\ Others(r) /\ TypedRequests'
  BY <1>1, <1>2, <1>3, Zenon DEF TypedRequests, Others
<1>6. Silent /\ UNCHANGED <<IsWaitingCommunityDatas, IsWaitingForLeasesInfos>>
  BY <1>1, Zenon DEF Silent, edgeVars, snVars, histVars
<1>7. Messages("full")' = Messages("full") /\ \A t : SameMessages(t)
  BY <1>6, QuietKeeps, Zenon DEF Silent, Messages
<1>8. FreshAnswer(r)'
  <2>1. q.epoch <= epoch'
    BY <1>2, <1>4, <1>6 DEF Silent, TypedSupernode
  <2>2. q.alone => Messages("full")' = {}
    BY <1>4, <1>7, Zenon DEF Quiet
  <2> QED
    BY <1>4, <1>5, <2>1, <2>2, Zenon DEF FreshAnswer
<1>9. FullAwaited'
  BY <1>1, <1>5, <1>6, <1>7, Zenon DEF IInv, FullAwaited, At, Others, SameMessages,
     Silent
<1>10. LeasesAwaited'
  BY <1>4, <1>5, <1>6, <1>7, Zenon DEF IInv, LeasesAwaited, At, Others, SameMessages,
     Silent
<1> QED
  BY <1>2, <1>4, <1>5, <1>6, <1>8, <1>9, <1>10, SilentStep, Zenon DEF TypedEdge

(* The test of the flag, before a request for the full state. *)
LEMMA CheckCommunityDatasStep ==
    ASSUME IInv, NEW r \in Requests, CheckCommunityDatas(r)
    PROVE  IInv'
<1>1. /\ req[r].at = "check" /\ req[r].kind \in {"json", "dot"}
      /\ UNCHANGED <<edgeVars, net, snVars, histVars>>
  BY Zenon DEF CheckCommunityDatas, At
<1>2. TypedRequests /\ TypedEdge /\ FreshAnswer(r)
  BY Zenon DEF IInv, Typed, FreshAnswers
<1>3. PICK pc \in {"poll", "set"} :
         Goto(r, pc) /\ (pc = "poll" => IsWaitingCommunityDatas)
  BY Zenon DEF CheckCommunityDatas
<1>4. Moved(r, pc) /\ pc \in Steps
  BY <1>1, <1>2, <1>3, Moving, Zenon DEF Steps
<1>5. Silent /\ UNCHANGED <<IsWaitingCommunityDatas, IsWaitingForLeasesInfos>>
  BY <1>1, Zenon DEF Silent, edgeVars, snVars, histVars
<1>6. Messages("full")' \subseteq Messages("full") /\ \A t : SameMessages(t)
  BY <1>5, QuietKeeps, Zenon DEF Silent, Messages
<1>7. FreshAnswer(r)'
  BY <1>1, <1>2, <1>3, <1>4, <1>5, <1>6, MovedEarly, Zenon DEF Silent
<1>8. FullAwaited'
  BY <1>1, <1>4, <1>5, <1>6, Zenon
     DEF IInv, FullAwaited, At, Moved, Others, SameMessages, Silent
<1>9. LeasesAwaited'
  BY <1>1, <1>4, <1>5, <1>6, Zenon
     DEF IInv, LeasesAwaited, At, Moved, Others, SameMessages, Silent
<1> QED
  BY <1>2, <1>3, <1>4, <1>5, <1>7, <1>8, <1>9, SilentStep, Zenon DEF TypedEdge, Moved

(* The flag is set before the request is sent. *)
LEMMA SetWaitingCommunityDatasStep ==
    ASSUME IInv, NEW r \in Requests, SetWaitingCommunityDatas(r)
    PROVE  IInv'
<1>1. /\ req[r].at = "set" /\ req[r].kind \in {"json", "dot"}
      /\ IsWaitingCommunityDatas' = TRUE /\ Goto(r, "send")
      /\ Silent /\ UNCHANGED IsWaitingForLeasesInfos
  BY Zenon DEF SetWaitingCommunityDatas, At, Silent, snVars, histVars
<1>2. TypedRequests /\ TypedEdge /\ FreshAnswer(r)
  BY DEF IInv, Typed, FreshAnswers
<1>3. Moved(r, "send") /\ "send" \in Steps
  BY <1>1, <1>2, Moving, Zenon DEF Steps
<1>4. Messages("full")' \subseteq Messages("full") /\ \A t : SameMessages(t)
  BY <1>1, QuietKeeps, Zenon DEF Silent, Messages
<1>5. FreshAnswer(r)'
  BY <1>1, <1>2, <1>3, <1>4, MovedEarly, Zenon DEF Silent
<1>6. FullAwaited'
  BY <1>1, <1>3, Zenon DEF FullAwaited, At, Moved
<1>7. LeasesAwaited'
  BY <1>1, <1>3, <1>4, Zenon
     DEF IInv, LeasesAwaited, At, Moved, Others, SameMessages, Silent
<1> QED
  BY <1>1, <1>2, <1>3, <1>5, <1>6, <1>7, SilentStep, Zenon DEF TypedEdge, Moved

(* What a step that may send m for the request r does. *)
Sends(r, m, pc) ==
    \/ net' = Sent(m) /\ Goto(r, pc) /\ UNCHANGED lost
    \/ lost' = TRUE /\ Goto(r, "error") /\ UNCHANGED net

(* The request for the full state is sent, or the handler fails. *)
LEMMA SendFullStateRequestStep ==
    ASSUME IInv, NEW r \in Requests, SendFullStateRequest(r)
    PROVE  IInv'
<1> DEFINE m == [type |-> "fullRequest"]
<1>1. /\ req[r].at = "send" /\ req[r].kind \in {"json", "dot"}
      /\ Sends(r, m, "poll")
      /\ UNCHANGED <<edgeVars, snVars, plan, missed, reordered, refused, overtaken>>
  BY Zenon DEF SendFullStateRequest, At, Sends
<1>2. m \in PlainMessages /\ m.type = "fullRequest"
  BY Zenon DEF PlainMessages
<1> HIDE DEF m
<1>3. TypedRequests /\ TypedEdge /\ TypedNet /\ TypedHistory /\ FreshAnswer(r)
  BY Zenon DEF IInv, Typed, FreshAnswers
<1>4. UNCHANGED <<peers, hasPendingChanges, reporter, datas, LastLeasesInfos,
                  IsWaitingCommunityDatas, IsWaitingForLeasesInfos, reported,
                  epoch, plan, missed, reordered, refused, overtaken>>
  BY <1>1, Zenon DEF edgeVars, snVars
<1>5. CASE net' = Sent(m) /\ Goto(r, "poll") /\ UNCHANGED lost
  <2>1. Moved(r, "poll")
    BY <1>1, <1>3, <1>5, Moving, Zenon DEF Steps
  <2>2. AfterSending(m)
    BY <1>3, <1>5, Sending, Zenon
  <2>3. TypedNet' /\ m \in Messages("fullRequest")'
    BY <1>2, <1>3, <2>2, Zenon DEF TypedNet, AfterSending, Datagrams, Messages, Flight
  <2>4. \A t : t # "fullRequest" => SameMessages(t)
    BY <1>2, <2>2, SendingKeeps, Zenon
  <2>5. Messages("full")' \subseteq Messages("full")
    BY <2>4, Zenon DEF SameMessages
  <2>6. FullAwaited'
    BY <2>3, Zenon DEF FullAwaited
  <2>7. LeasesAwaited'
    BY <1>1, <1>4, <1>5, <2>1, <2>4
       DEF IInv, LeasesAwaited, At, Moved, Others, SameMessages
  <2>8. FreshAnswer(r)'
    BY <1>1, <1>3, <1>4, <2>1, <2>5, Zenon DEF FreshAnswer, FreshDatas, Moved
  <2>9. req'[r].at # "done" /\ Others(r) /\ TypedRequests' /\ lost' \in BOOLEAN
    BY <1>3, <1>5, <2>1, Zenon DEF Moved, TypedHistory
  <2> QED
    BY <1>3, <1>4, <1>5, <2>3, <2>4, <2>5, <2>6, <2>7, <2>8, <2>9, RequestStep, Zenon
       DEF TypedEdge
<1>6. CASE lost' = TRUE /\ Goto(r, "error") /\ UNCHANGED net
  <2>1. Moved(r, "error")
    BY <1>1, <1>3, <1>6, Moving, Zenon DEF Steps
  <2>2. TypedNet' /\ \A t : SameMessages(t)
    BY <1>3, <1>6, QuietKeeps, Zenon DEF TypedNet, Flight
  <2>3. FullAwaited' /\ LeasesAwaited'
    BY <1>6, Zenon DEF FullAwaited, LeasesAwaited
  <2>4. FreshAnswer(r)' /\ req'[r].at # "done" /\ Others(r) /\ TypedRequests'
    BY <2>1, Zenon DEF FreshAnswer, Moved
  <2>5. Messages("full")' \subseteq Messages("full")
    BY <2>2, Zenon DEF SameMessages
  <2> QED
    BY <1>3, <1>4, <1>6, <2>2, <2>3, <2>4, <2>5, RequestStep, Zenon DEF TypedEdge
<1> QED
  BY <1>1, <1>5, <1>6, Zenon DEF Sends

(* The test of the flag, before a request for the leases. *)
LEMMA CheckLeasesStep ==
    ASSUME IInv, NEW r \in Requests, CheckLeases(r)
    PROVE  IInv'
<1>1. /\ req[r].at = "check" /\ req[r].kind = "leases"
      /\ UNCHANGED <<edgeVars, net, snVars, histVars>>
  BY Zenon DEF CheckLeases, At
<1>2. TypedRequests /\ TypedEdge /\ FreshAnswer(r)
  BY DEF IInv, Typed, FreshAnswers
<1>3. PICK pc \in {"poll", "send"} : Goto(r, pc)
  BY Zenon DEF CheckLeases
<1>4. Moved(r, pc) /\ pc \in Steps
  BY <1>1, <1>2, <1>3, Moving, Zenon DEF Steps
<1>5. Silent /\ UNCHANGED <<IsWaitingCommunityDatas, IsWaitingForLeasesInfos>>
  BY <1>1, Zenon DEF Silent, edgeVars, snVars, histVars
<1>6. Messages("full")' \subseteq Messages("full") /\ \A t : SameMessages(t)
  BY <1>5, QuietKeeps, Zenon DEF Silent, Messages
<1>7. FreshAnswer(r)'
  BY <1>1, <1>2, <1>3, <1>4, <1>5, <1>6, MovedEarly, Zenon DEF Silent
<1>8. FullAwaited'
  BY <1>1, <1>4, <1>5, <1>6, Zenon
     DEF IInv, FullAwaited, At, Moved, Others, SameMessages, Silent
<1>9. LeasesAwaited'
  BY <1>1, <1>3, <1>4, <1>5, <1>6, Zenon
     DEF IInv, LeasesAwaited, At, Moved, Others, SameMessages, Silent
<1> QED
  BY <1>2, <1>3, <1>4, <1>5, <1>7, <1>8, <1>9, SilentStep, Zenon DEF TypedEdge, Moved

(* The request for the leases is sent, or the handler fails. *)
LEMMA SendLeasesRequestStep ==
    ASSUME IInv, NEW r \in Requests, SendLeasesRequest(r)
    PROVE  IInv'
<1> DEFINE m == [type |-> "leasesRequest"]
<1>1. /\ req[r].at = "send" /\ req[r].kind = "leases"
      /\ Sends(r, m, "set")
      /\ UNCHANGED <<edgeVars, snVars, plan, missed, reordered, refused, overtaken>>
  BY Zenon DEF SendLeasesRequest, At, Sends
<1>2. m \in PlainMessages /\ m.type = "leasesRequest"
  BY Zenon DEF PlainMessages
<1> HIDE DEF m
<1>3. TypedRequests /\ TypedEdge /\ TypedNet /\ TypedHistory /\ FreshAnswer(r)
  BY DEF IInv, Typed, FreshAnswers
<1>4. UNCHANGED <<peers, hasPendingChanges, reporter, datas, LastLeasesInfos,
                  IsWaitingCommunityDatas, IsWaitingForLeasesInfos, reported,
                  epoch, plan, missed, reordered, refused, overtaken>>
  BY <1>1, Zenon DEF edgeVars, snVars
<1>5. CASE net' = Sent(m) /\ Goto(r, "set") /\ UNCHANGED lost
  <2>1. Moved(r, "set")
    BY <1>1, <1>3, <1>5, Moving, Zenon DEF Steps
  <2>2. AfterSending(m)
    BY <1>3, <1>5, Sending, Zenon
  <2>3. TypedNet' /\ m \in Messages("leasesRequest")'
    BY <1>2, <1>3, <2>2, Zenon DEF TypedNet, AfterSending, Datagrams, Messages, Flight
  <2>4. \A t : t # "leasesRequest" => SameMessages(t)
    BY <1>2, <2>2, SendingKeeps, Zenon
  <2>5. Messages("full")' \subseteq Messages("full")
    BY <2>4, Zenon DEF SameMessages
  <2>6. LeasesAwaited'
    BY <2>3, Zenon DEF LeasesAwaited
  <2>7. FullAwaited'
    BY <1>1, <1>4, <1>5, <2>1, <2>4
       DEF IInv, FullAwaited, At, Moved, Others, SameMessages
  <2>8. FreshAnswer(r)'
    BY <1>1, <1>3, <1>4, <2>1, <2>5, Zenon DEF FreshAnswer, FreshDatas, Moved
  <2>9. req'[r].at # "done" /\ Others(r) /\ TypedRequests' /\ lost' \in BOOLEAN
    BY <1>3, <1>5, <2>1, Zenon DEF Moved, TypedHistory
  <2> QED
    BY <1>3, <1>4, <1>5, <2>3, <2>4, <2>5, <2>6, <2>7, <2>8, <2>9, RequestStep, Zenon
       DEF TypedEdge
<1>6. CASE lost' = TRUE /\ Goto(r, "error") /\ UNCHANGED net
  <2>1. Moved(r, "error")
    BY <1>1, <1>3, <1>6, Moving, Zenon DEF Steps
  <2>2. TypedNet' /\ \A t : SameMessages(t)
    BY <1>3, <1>6, QuietKeeps DEF TypedNet, Flight
  <2>3. FullAwaited' /\ LeasesAwaited'
    BY <1>6 DEF FullAwaited, LeasesAwaited
  <2>4. FreshAnswer(r)' /\ req'[r].at # "done" /\ Others(r) /\ TypedRequests'
    BY <2>1 DEF FreshAnswer, Moved
  <2>5. Messages("full")' \subseteq Messages("full")
    BY <2>2 DEF SameMessages
  <2> QED
    BY <1>3, <1>4, <1>6, <2>2, <2>3, <2>4, <2>5, RequestStep DEF TypedEdge
<1> QED
  BY <1>1, <1>5, <1>6, Zenon DEF Sends

(* The flag is set after the request for the leases was sent. *)
LEMMA SetWaitingForLeasesInfosStep ==
    ASSUME IInv, NEW r \in Requests, SetWaitingForLeasesInfos(r)
    PROVE  IInv'
<1>1. /\ req[r].at = "set" /\ req[r].kind = "leases"
      /\ IsWaitingForLeasesInfos' = TRUE /\ Goto(r, "poll")
      /\ Silent /\ UNCHANGED IsWaitingCommunityDatas
  BY Zenon DEF SetWaitingForLeasesInfos, At, Silent, snVars, histVars
<1>2. TypedRequests /\ TypedEdge /\ FreshAnswer(r)
  BY DEF IInv, Typed, FreshAnswers
<1>3. Moved(r, "poll") /\ "poll" \in Steps
  BY <1>1, <1>2, Moving, Zenon DEF Steps
<1>4. Messages("full")' \subseteq Messages("full") /\ \A t : SameMessages(t)
  BY <1>1, QuietKeeps, Zenon DEF Silent, Messages
<1>5. FreshAnswer(r)'
  BY <1>1, <1>2, <1>3, <1>4, MovedEarly, Zenon DEF Silent
<1>6. FullAwaited'
  BY <1>1, <1>3, <1>4, Zenon
     DEF IInv, FullAwaited, At, Moved, Others, SameMessages, Silent
<1>7. LeasesAwaited'
  BY <1>1, <1>4, Zenon DEF IInv, LeasesAwaited, At, SameMessages, Silent
<1> QED
  BY <1>1, <1>2, <1>3, <1>5, <1>6, <1>7, SilentStep, Zenon DEF TypedEdge, Moved

(* GetOfflinesDot goes on to wait. *)
LEMMA CheckOfflinesStep ==
    ASSUME IInv, NEW r \in Requests, CheckOfflines(r)
    PROVE  IInv'
<1>1. /\ req[r].at = "check" /\ req[r].kind = "offlines" /\ Goto(r, "poll")
      /\ UNCHANGED <<edgeVars, net, snVars, histVars>>
  BY Zenon DEF CheckOfflines, At
<1>2. TypedRequests /\ TypedEdge /\ FreshAnswer(r)
  BY DEF IInv, Typed, FreshAnswers
<1>3. Moved(r, "poll") /\ "poll" \in Steps
  BY <1>1, <1>2, Moving, Zenon DEF Steps
<1>4. Silent /\ UNCHANGED <<IsWaitingCommunityDatas, IsWaitingForLeasesInfos>>
  BY <1>1, Zenon DEF Silent, edgeVars, snVars, histVars
<1>5. Messages("full")' \subseteq Messages("full") /\ \A t : SameMessages(t)
  BY <1>4, QuietKeeps, Zenon DEF Silent, Messages
<1>6. FreshAnswer(r)'
  BY <1>1, <1>2, <1>3, <1>4, <1>5, MovedEarly, Zenon DEF Silent
<1>7. FullAwaited' /\ LeasesAwaited'
  BY <1>1, <1>3, <1>4, <1>5, Zenon
     DEF IInv, FullAwaited, LeasesAwaited, At, Moved, Others, SameMessages, Silent
<1> QED
  BY <1>2, <1>3, <1>4, <1>6, <1>7, SilentStep, Zenon DEF TypedEdge, Moved

(* The result of a request whose wait is over, from the datas there are. *)
ResultOf(kind) ==
    CASE kind = "leases" -> LastLeasesInfos
      [] kind = "dot" /\ datas # None -> DotOf(datas)
      [] OTHER -> datas

(* A graph of the datas is a result that tells the same epoch. *)
LEMMA DotResult ==
    ASSUME NEW d \in Datas
    PROVE  /\ DotOf(d) \in Dots /\ DotOf(d) # None /\ DotOf(d).epoch = d.epoch
           /\ DotOf(d).reach \in Reach /\ DotOf(d) = DotOf(DotOf(d))
<1>1. d.reach \in Reach /\ d.epoch \in Nat
  BY Zenon DEF Datas
<1>2. DotOf(d) \in Dots
  BY <1>1, Zenon DEF DotOf, Dots
<1>3. DotOf(d).epoch = d.epoch /\ DotOf(d).reach = d.reach
  BY Zenon DEF DotOf
<1>4. DotOf(d) = DotOf(DotOf(d))
  BY <1>3, Zenon DEF DotOf
<1> QED
  BY <1>1, <1>2, <1>3, <1>4, NoneIsNoGraph, Zenon

(* A poll sleeps, or answers with the datas, which are fresh. *)
LEMMA PollStep ==
    ASSUME IInv, NEW r \in Requests, Poll(r)
    PROVE  IInv'
<1>1. req[r].at = "poll" /\ UNCHANGED <<edgeVars, net, snVars, histVars>>
  BY Zenon DEF Poll
<1>2. TypedRequests /\ TypedEdge /\ TypedNet /\ TypedHistory /\ FreshAnswer(r)
  BY DEF IInv, Typed, FreshAnswers
<1>3. req[r] \in BegunRequests
  BY <1>1, <1>2 DEF TypedRequests, NoRequest
<1>4. Silent /\ UNCHANGED <<IsWaitingCommunityDatas, IsWaitingForLeasesInfos>>
  BY <1>1, Zenon DEF Silent, edgeVars, snVars, histVars
<1>5. Messages("full")' \subseteq Messages("full") /\ \A t : SameMessages(t)
  BY <1>4, QuietKeeps DEF Silent, Messages
<1>6. CASE Waiting(r)
  <2>1. req' = [req EXCEPT ![r].at = "slept", ![r].result = req[r].result]
    BY <1>6, Zenon DEF Poll
  <2>2. Goto(r, "slept")
    BY <1>2, <1>3, <2>1, Zenon DEF Goto, TypedRequests, BegunRequests
  <2>3. Moved(r, "slept") /\ "slept" \in Steps
    BY <1>1, <1>2, <2>2, Moving, Zenon DEF Steps
  <2>4. FreshAnswer(r)'
    BY <1>1, <1>2, <1>4, <1>5, <2>3, Zenon DEF FreshAnswer, FreshDatas, Moved, Silent
  <2>5. FullAwaited' /\ LeasesAwaited'
    BY <1>1, <1>4, <1>5, <2>3, Zenon
       DEF IInv, FullAwaited, LeasesAwaited, At, Moved, Others, SameMessages, Silent
  <2> QED
    BY <1>2, <1>4, <2>3, <2>4, <2>5, SilentStep, Zenon DEF TypedEdge, Moved
<1>7. CASE ~Waiting(r)
  <2> DEFINE v == ResultOf(req[r].kind)
  <2>1. req' = [req EXCEPT ![r].at = "done", ![r].result = v]
    BY <1>7, Zenon DEF Poll, ResultOf
  <2>2. v \in Results
    BY <1>2, DotResult, Zenon DEF ResultOf, Results, TypedEdge
  <2>3. req[r].kind \in {"json", "dot"} /\ datas # None =>
          v # None /\ v.epoch = datas.epoch
    BY <1>2, DotResult, Zenon DEF ResultOf, TypedEdge
  <2>4. req[r].kind = "dot" /\ v # None => v.reach \in Reach /\ v = DotOf(v)
    BY <1>2, DotResult, Zenon DEF ResultOf, TypedEdge
  <2> HIDE DEF v
  <2>5. Others(r) /\ req'[r] = [req[r] EXCEPT !.at = "done", !.result = v]
    BY <1>2, <1>3, <2>1, Zenon DEF TypedRequests, BegunRequests, Others
  <2>6. /\ req'[r] \in BegunRequests
        /\ req'[r].at = "done" /\ req'[r].result = v
        /\ req'[r].kind = req[r].kind /\ req'[r].alone = req[r].alone
        /\ req'[r].cleared = req[r].cleared /\ req'[r].epoch = req[r].epoch
    BY <1>3, <2>2, <2>5, Zenon DEF BegunRequests, Steps
  <2>7. TypedRequests'
    BY <1>2, <2>1, <2>5, <2>6, Zenon DEF TypedRequests, Others
  <2>8. FreshAnswer(r)'
    <3>1. req[r].kind \in {"json", "dot"} => ~IsWaitingCommunityDatas
      BY <1>7, Zenon DEF Waiting
    <3> QED
      BY <1>1, <1>2, <1>4, <2>3, <2>6, <3>1, Zenon
         DEF FreshAnswer, FreshDatas, Silent
  <2>9. FullAwaited' /\ LeasesAwaited'
    BY <1>1, <1>4, <1>5, <2>5, <2>6, Zenon
       DEF IInv, FullAwaited, LeasesAwaited, At, Others, SameMessages, Silent
  <2>10. TypedNet' /\ lost' \in BOOLEAN
    BY <1>2, <1>4, Zenon DEF TypedNet, TypedHistory, Flight, Silent
  <2> QED
    BY <1>2, <1>4, <1>5, <2>4, <2>5, <2>6, <2>7, <2>8, <2>9, <2>10, RequestStep, Zenon
       DEF TypedEdge, Silent
<1> QED
  BY <1>6, <1>7, Zenon

(* Three seconds pass. *)
LEMMA LateStep ==
    ASSUME IInv, NEW r \in Requests, Late(r)
    PROVE  IInv'
<1>1. /\ req[r].at \in {"poll", "slept"} /\ req' = [req EXCEPT ![r].late = TRUE]
      /\ UNCHANGED <<edgeVars, net, snVars, histVars>>
  BY Zenon DEF Late
<1>2. TypedRequests /\ TypedEdge /\ FreshAnswer(r)
  BY DEF IInv, Typed, FreshAnswers
<1>3. req[r] \in BegunRequests
  BY <1>1, <1>2 DEF TypedRequests, NoRequest
<1>4. req'[r] = [req[r] EXCEPT !.late = TRUE] /\ Others(r)
  BY <1>1, <1>2, Zenon DEF TypedRequests, Others
<1>5. req'[r] \in BegunRequests /\ req[r].at \in Steps
  BY <1>3, <1>4, Zenon DEF BegunRequests
<1>6. Moved(r, req[r].at)
  <2>1. TypedRequests'
    BY <1>1, <1>2, <1>4, <1>5, Zenon DEF TypedRequests, Others
  <2> QED
    BY <1>3, <1>4, <2>1, Zenon DEF Moved, BegunRequests
<1>7. Silent /\ UNCHANGED <<IsWaitingCommunityDatas, IsWaitingForLeasesInfos>>
  BY <1>1, Zenon DEF Silent, edgeVars, snVars, histVars
<1>8. Messages("full")' \subseteq Messages("full") /\ \A t : SameMessages(t)
  BY <1>7, QuietKeeps DEF Silent, Messages
<1>9. FreshAnswer(r)'
  BY <1>1, <1>2, <1>6, <1>7, <1>8, Zenon DEF FreshAnswer, FreshDatas, Moved, Silent
<1>10. FullAwaited' /\ LeasesAwaited'
  BY <1>1, <1>6, <1>7, <1>8, Zenon
     DEF IInv, FullAwaited, LeasesAwaited, At, Moved, Others, SameMessages, Silent
<1> QED
  BY <1>1, <1>2, <1>6, <1>7, <1>9, <1>10, SilentStep, Zenon DEF TypedEdge, Moved

(* After the sleep the request polls again; a late one tells all others    *)
(* that the flag was cleared. *)
LEMMA WakeUpStep ==
    ASSUME IInv, NEW r \in Requests, WakeUp(r)
    PROVE  IInv'
<1> DEFINE c == Cleared(req)
<1>1. /\ req[r].at = "slept"
      /\ \/ IsWaitingCommunityDatas' = FALSE /\ req' = [c EXCEPT ![r].at = "poll"]
         \/ Goto(r, "poll") /\ UNCHANGED IsWaitingCommunityDatas
      /\ Silent /\ UNCHANGED IsWaitingForLeasesInfos
  BY Zenon DEF WakeUp, Silent, snVars, histVars
<1>2. TypedRequests /\ TypedEdge /\ FreshAnswer(r)
  BY DEF IInv, Typed, FreshAnswers
<1>3. Messages("full")' \subseteq Messages("full") /\ \A t : SameMessages(t)
  BY <1>1, QuietKeeps, Zenon DEF Silent, Messages
<1>4. CASE Goto(r, "poll") /\ UNCHANGED IsWaitingCommunityDatas
  <2>1. Moved(r, "poll") /\ "poll" \in Steps
    BY <1>1, <1>2, <1>4, Moving, Zenon DEF Steps
  <2>2. FreshAnswer(r)'
    BY <1>1, <1>2, <1>3, <1>4, <2>1, Zenon DEF FreshAnswer, FreshDatas, Moved, Silent
  <2>3. FullAwaited' /\ LeasesAwaited'
    BY <1>1, <1>3, <1>4, <2>1, Zenon
       DEF IInv, FullAwaited, LeasesAwaited, At, Moved, Others, SameMessages, Silent
  <2> QED
    BY <1>1, <1>2, <1>4, <2>1, <2>2, <2>3, SilentStep, Zenon DEF TypedEdge, Moved
<1>5. CASE /\ IsWaitingCommunityDatas' = FALSE
           /\ req' = [c EXCEPT ![r].at = "poll"]
  <2>1. /\ \A s \in Requests : Told(s, c[s]) /\ c[s] \in BegunRequests \cup {NoRequest}
        /\ DOMAIN c = Requests /\ c = [s \in Requests |-> c[s]]
    BY <1>2, Telling, Zenon DEF Cleared
  <2> HIDE DEF c
  <2>2. \A s \in Requests : s # r => req'[s] = c[s]
    BY <1>5, <2>1, Zenon
  <2>3. req'[r] = [c[r] EXCEPT !.at = "poll"] /\ c[r] \in BegunRequests /\ c[r].cleared
    BY <1>1, <1>5, <2>1, Zenon DEF Told
  <2>4. /\ req'[r] \in BegunRequests /\ req'[r].at = "poll" /\ req'[r].cleared
        /\ req'[r].alone = c[r].alone /\ req'[r].epoch = c[r].epoch
        /\ req'[r].kind = c[r].kind
    BY <2>3 DEF BegunRequests, Steps
  <2>5. Typed'
    <3>1. TypedRequests'
      BY <1>5, <2>1, <2>2, <2>4, Zenon DEF TypedRequests
    <3> QED
      BY <1>1, <1>5, <3>1, Zenon
         DEF IInv, Typed, TypedEdge, TypedNet, TypedSupernode, TypedHistory,
             Silent, Flight
  <2>6. FullAwaited'
    BY <1>5, Zenon DEF FullAwaited
  <2>7. LeasesAwaited'
    BY <1>1, <1>3, <2>1, <2>2, <2>4
       DEF IInv, LeasesAwaited, Told, At, SameMessages, Silent
  <2>8. OneReport' /\ PeersReported'
    BY <1>1, <1>3, ReportsFrame, Zenon DEF IInv, Silent
  <2>9. FreshAnswers'
    <3>1. ASSUME NEW s \in Requests, s # r PROVE FreshAnswer(s)'
      BY <1>1, <2>1, <2>2, <3>1, ToldFresh, Zenon DEF IInv, FreshAnswers, Silent
    <3>2. FreshAnswer(r)'
      <4>1. c[r].alone = req[r].alone /\ c[r].epoch = req[r].epoch
        BY <2>1, Zenon DEF Told
      <4> QED
        BY <1>1, <1>2, <1>3, <2>4, <4>1, Zenon DEF FreshAnswer, Silent
    <3> QED
      BY <3>1, <3>2, Zenon DEF FreshAnswers
  <2>10. GraphsMade'
    BY <2>1, <2>2, <2>4 DEF IInv, GraphsMade, Told
  <2> QED
    BY <2>5, <2>6, <2>7, <2>8, <2>9, <2>10, Zenon DEF IInv
<1> QED
  BY <1>1, <1>4, <1>5, Zenon

-----------------------------------------------------------------------------
(* The theorems. *)

(* Every step of the edge, the supernode, the network and the requests     *)
(* preserves the invariant. *)
THEOREM NextInv == IInv /\ [Next]_vars => IInv'
<1> SUFFICES ASSUME IInv, [Next]_vars PROVE IInv'
  BY Zenon
<1>1. CASE \E m \in Macs \ {Me} : ChangePeer(m)
  BY <1>1, ChangePeerStep, Zenon
<1>2. CASE \E m \in Macs \ {Me}, infos \in SUBSET {Me} : OtherReports(m, infos)
  BY <1>2, OtherReportsStep, Zenon
<1>3. CASE Report
  BY <1>3, ReadP2PInfosStep, ClearPendingChangesStep, SendP2PInfosStep, Zenon DEF Report
<1>4. CASE Supernode
  BY <1>4, HandleP2PStateInfoStep, HandleFullStateRequestStep,
     HandleLeasesRequestStep, Zenon DEF Supernode
<1>5. CASE HandleUDP
  BY <1>5, HandleFullStateStep, HandleLeasesInfosStep, Zenon DEF HandleUDP
<1>6. CASE HandleRegisterResponse
  BY <1>6, HandleRegisterResponseStep, Zenon
<1>7. CASE Lose
  BY <1>7, LoseStep, Zenon
<1>8. ASSUME NEW r \in Requests, Request(r) PROVE IInv'
  BY <1>8, CheckCommunityDatasStep, SetWaitingCommunityDatasStep,
     SendFullStateRequestStep, CheckLeasesStep, SendLeasesRequestStep,
     SetWaitingForLeasesInfosStep, CheckOfflinesStep, PollStep, WakeUpStep, Zenon
     DEF Request
<1>9. ASSUME NEW r \in Requests, Late(r) PROVE IInv'
  BY <1>9, LateStep, Zenon
<1>10. ASSUME NEW r \in Requests, NEW kind \in plan.kinds[r], Arrive(r, kind)
       PROVE  IInv'
  <2>1. kind \in Kinds
    BY ConstantsOK, Zenon DEF IInv, Typed, TypedHistory, Kinds
  <2> QED
    BY <1>10, <2>1, ArriveStep, Zenon
<1>11. CASE UNCHANGED vars
  <2>1. \A t : SameMessages(t)
    BY <1>11, QuietKeeps, Zenon DEF vars
  <2>2. Typed'
    BY <1>11 DEF IInv, Typed, TypedEdge, TypedRequests, TypedNet, TypedSupernode,
       TypedHistory, Flight, vars, edgeVars, snVars, histVars
  <2>3. FullAwaited' /\ LeasesAwaited'
    BY <1>11, <2>1, AwaitedFrame, Zenon DEF IInv, vars, edgeVars, histVars
  <2>4. OneReport' /\ PeersReported'
    BY <1>11, <2>1, ReportsFrame, Zenon DEF IInv, vars, edgeVars, snVars, histVars
  <2>5. FreshAnswers'
    BY <1>11, <2>1, FreshFrames
       DEF IInv, Typed, TypedSupernode, SameMessages, vars, edgeVars, snVars
  <2>6. GraphsMade'
    BY <1>11, GraphsFrame, Zenon DEF IInv, vars
  <2> QED
    BY <2>2, <2>3, <2>4, <2>5, <2>6, Zenon DEF IInv
<1> QED
  BY <1>1, <1>2, <1>3, <1>4, <1>5, <1>6, <1>7, <1>8, <1>9, <1>10, <1>11, Zenon DEF Next

(* The inductive invariant holds in every reachable state. *)
THEOREM InvHolds == Spec => []IInv
BY InitInv, NextInv, PTL DEF Spec

(* A flag that an HTTP request polls is set only while an answer can still *)
(* clear it, or an answer was lost, refused or came too early. *)
THEOREM AlwaysWaitingForAnAnswer == Spec => []WaitingForAnAnswer
<1>1. IInv => WaitingForAnAnswer
  BY Zenon DEF IInv, FullAwaited, LeasesAwaited, WaitingForAnAnswer
<1> QED
  BY <1>1, InvHolds, PTL

(* When nothing is left to report, the supernode knows the peers of this   *)
(* edge, but for the three excuses. *)
THEOREM LastChangeAlwaysReported == Spec => []LastChangeReported
<1>1. IInv => LastChangeReported
  BY Zenon DEF IInv, PeersReported, LastChangeReported
<1> QED
  BY <1>1, InvHolds, PTL

(* A request that began with nothing under way and whose wait nobody cut   *)
(* short answers with datas that are not older than itself. *)
THEOREM AlwaysFreshWhenAlone == Spec => []FreshWhenAlone
<1>1. IInv => FreshWhenAlone
  BY Zenon DEF IInv, FreshAnswers, FreshAnswer, FreshWhenAlone
<1> QED
  BY <1>1, InvHolds, PTL

(* A graph has the nodes and the normalised pairs of the reports it was    *)
(* made from, and draws none of them. *)
THEOREM GraphsAlwaysOfReports == Spec => []GraphOfReports
<1>1. IInv => GraphOfReports
  <2> SUFFICES ASSUME IInv, NEW r \in Requests, req[r].at = "done",
                      req[r].kind = "dot", req[r].result # None
               PROVE  Depicts(req[r].result.graph, req[r].result.reach)
    BY Zenon DEF GraphOfReports
  <2>1. req[r].result.reach \in Reach
    BY Zenon DEF IInv, GraphsMade
  <2>2. req[r].result.graph = GenPeersDot(req[r].result.reach)
    <3>1. req[r].result = DotOf(req[r].result)
      BY Zenon DEF IInv, GraphsMade
    <3>2. DotOf(req[r].result).graph = GenPeersDot(req[r].result.reach)
      BY Zenon DEF DotOf
    <3> QED
      BY <3>1, <3>2, Zenon
  <2>3. Depicts(GenPeersDot(req[r].result.reach), req[r].result.reach)
    BY <2>1, Drawing, Zenon
  <2> QED
    BY <2>2, <2>3, Zenon
<1> QED
  BY <1>1, InvHolds, PTL
=============================================================================
