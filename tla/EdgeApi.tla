------------------------------- MODULE EdgeApi -------------------------------
(***************************************************************************)
(* The web API of an edge (pkg/edge/api.go), from a change in its peer     *)
(* registry to the graph a browser shows:                                  *)
(*                                                                         *)
(*   - handleUDP adds and removes peers; handleP2PInfos reports them to    *)
(*     the supernode when hasPendingChanges is set (sendP2PInfos);         *)
(*   - the supernode keeps the reports and answers P2PFullState and        *)
(*     LeasesInfos requests;                                               *)
(*   - each HTTP request runs in a goroutine of its own.  It sends such a  *)
(*     request, unless a flag says that one is under way, and polls the    *)
(*     flag until handleUDP clears it.                                     *)
(*                                                                         *)
(* None of the flags has a lock: every read and write is a step.  The edge *)
(* stays registered; EdgeRegistration models how it becomes so again.      *)
(***************************************************************************)
EXTENDS Integers, Bags, FiniteSets

CONSTANTS
    Me,         \* this edge
    Macs,       \* the edges of the community
    Desc,       \* MAC address -> description, a number in string order
    Requests,   \* HTTP requests, numbered as they arrive
    Lossy,      \* a datagram may be lost, or sending one fail (bound: once)
    Plans,      \* bounds on what happens: see plan
    None        \* no report, no datas

VARIABLES
    peers,              \* reg.Peers
    hasPendingChanges,
    reporter,           \* handleP2PInfos: its step and the infos it has read
    IsWaitingCommunityDatas,
    IsWaitingForLeasesInfos,
    datas,              \* P2PCommunityDatas: the last full state, or None
    LastLeasesInfos,
    req,                \* HTTP request -> its step and its result
    net,                \* bag of datagrams under way
    reported,           \* supernode: MAC -> the peers it reported, or None
    \* bounds and histories:
    plan,               \* how many peer changes, reports by other edges and
                        \* registrations after a restart there may be, and
                        \* the kinds each HTTP request may be of
    epoch,              \* the number of reports the supernode has stored
    peerChanges, recoveries,
    missed,             \* a change came between reading and clearing the flag
    reordered,          \* two reports were under way at a time
    lost,               \* a datagram was lost, or sending one failed
    refused,            \* an answer without any report came
    overtaken           \* an answer came before its flag was set

edgeVars == <<peers, hasPendingChanges, reporter, IsWaitingCommunityDatas,
              IsWaitingForLeasesInfos, datas, LastLeasesInfos>>
snVars == <<reported, epoch>>
histVars == <<plan, peerChanges, recoveries, missed, reordered, lost, refused,
              overtaken>>
vars == <<edgeVars, req, net, snVars, histVars>>

(* What the supernode knows, and a full state as the edge keeps it. *)
Reach == [Macs -> (SUBSET Macs) \cup {None}]
Datas == [reach: Reach, epoch: Nat]

ASSUME ConstantsOK ==
    /\ Me \in Macs /\ Desc \in [Macs -> Nat] /\ Requests \subseteq Nat
    /\ Plans \subseteq [changes: Nat, reports: Nat, recoveries: Nat,
          kinds: [Requests -> SUBSET {"json", "dot", "offlines", "leases"}]]
    /\ Lossy \in BOOLEAN
    /\ None \notin Datas

MayFail == Lossy /\ ~lost

Messages(t) == {m \in BagToSet(net) : m.type = t}

Sent(m) == net (+) SetToBag({m})
Delivered(m) == net (-) SetToBag({m})

-----------------------------------------------------------------------------
(* The graph (p2p/p2viz.go).  reach: MAC -> reported peers, or None. *)

Reporting(reach) == {m \in DOMAIN reach : reach[m] # None}

(* A pair of descriptions in alphabetical order. *)
newPeerPairKey(a, b) == IF a < b THEN <<a, b>> ELSE <<b, a>>

(* Which edge reported which. *)
Reports(reach) == {q \in Reporting(reach) \X Macs : q[2] \in reach[q[1]]}

(* The directed pairs.  A report has no status, so each is P2PUnknown. *)
ConnectionData(reach) ==
    [p \in {<<Desc[q[1]], Desc[q[2]]>> : q \in Reports(reach)} |-> "Unknown"]

getConnectionType(a, b, cd) ==
    LET Is(p) == p \in DOMAIN cd /\ cd[p] = "Available"
    IN  CASE Is(<<a, b>>) /\ Is(<<b, a>>) -> "Full"
          [] Is(<<a, b>>) /\ ~Is(<<b, a>>) -> "AtoB"
          [] ~Is(<<a, b>>) /\ Is(<<b, a>>) -> "BtoA"
          [] OTHER -> "NoP2P"

(* Mutant of NewCommunityP2PVizDatas: the pairs are not normalised. *)
MutNewCommunityP2PVizDatas(reach) ==
    LET cd == ConnectionData(reach)
    IN  [nodes |-> {Desc[m] : m \in Reporting(reach)},
         states |-> [p \in DOMAIN cd |-> getConnectionType(p[1], p[2], cd)]]

(* The nodes and the state of every pair. *)
NewCommunityP2PVizDatas(reach) ==
    LET cd == ConnectionData(reach)
        pairs == {newPeerPairKey(p[1], p[2]) : p \in DOMAIN cd}
    IN  [nodes |-> {Desc[m] : m \in Reporting(reach)},
         states |-> [p \in pairs |-> getConnectionType(p[1], p[2], cd)]]

(* GenPeersDot: the arrows peerEdges draws between the nodes of peerNodes. *)
GenPeersDot(reach) ==
    LET viz == NewCommunityP2PVizDatas(reach)
    IN  [nodes |-> viz.nodes, pairs |-> DOMAIN viz.states,
         drawn |-> {p \in DOMAIN viz.states : viz.states[p] # "NoP2P"}]

(* What GetPeersDot answers: the graph of a full state. *)
DotOf(d) == [graph |-> GenPeersDot(d.reach), reach |-> d.reach, epoch |-> d.epoch]
Dots == [graph: {GenPeersDot(reach) : reach \in Reach}, reach: Reach, epoch: Nat]

ASSUME NoneIsNoGraph == None \notin Dots

-----------------------------------------------------------------------------
(* The peer registry and the reports. *)

IdleReporter == [at |-> "idle", infos |-> {}]

Init ==
    /\ peers = {} /\ hasPendingChanges = FALSE /\ reporter = IdleReporter
    /\ IsWaitingCommunityDatas = FALSE /\ IsWaitingForLeasesInfos = FALSE
    /\ datas = None /\ LastLeasesInfos = None
    /\ req = [r \in Requests |-> [kind |-> None, at |-> "none"]]
    /\ net = EmptyBag
    /\ reported = [m \in Macs |-> None] /\ epoch = 0
    /\ plan \in Plans
    /\ peerChanges = 0 /\ recoveries = 0 /\ missed = FALSE /\ reordered = FALSE
    /\ lost = FALSE /\ refused = FALSE /\ overtaken = FALSE

(* AddPeer or RemovePeer, called by handlePeerInfoMessage. *)
ChangePeer(m) ==
    /\ peerChanges < plan.changes
    /\ peers' = IF m \in peers THEN peers \ {m} ELSE peers \cup {m}
    /\ hasPendingChanges' = TRUE
    /\ peerChanges' = peerChanges + 1
    /\ missed' = (missed \/ reporter.at = "clear")
    /\ UNCHANGED <<reporter, IsWaitingCommunityDatas, IsWaitingForLeasesInfos,
                   datas, LastLeasesInfos, req, net, snVars, plan, recoveries,
                   reordered, lost, refused, overtaken>>

(* sendP2PInfos, in three steps: read the peers, clear the flag, send. *)
ReadP2PInfos ==
    /\ reporter.at = "idle" /\ hasPendingChanges
    /\ reporter' = [at |-> "clear", infos |-> peers]
    /\ UNCHANGED <<peers, hasPendingChanges, IsWaitingCommunityDatas,
                   IsWaitingForLeasesInfos, datas, LastLeasesInfos,
                   req, net, snVars, histVars>>

(* Mutant of ClearPendingChanges: an empty list of peers is not sent. *)
MutClearPendingChanges ==
    /\ reporter.at = "clear"
    /\ hasPendingChanges' = FALSE
    /\ reporter' = IF reporter.infos = {} THEN IdleReporter
                   ELSE [reporter EXCEPT !.at = "send"]
    /\ UNCHANGED <<peers, IsWaitingCommunityDatas, IsWaitingForLeasesInfos,
                   datas, LastLeasesInfos, req, net, snVars, histVars>>

ClearPendingChanges ==
    /\ reporter.at = "clear"
    /\ hasPendingChanges' = FALSE
    /\ reporter' = [reporter EXCEPT !.at = "send"]
    /\ UNCHANGED <<peers, IsWaitingCommunityDatas, IsWaitingForLeasesInfos,
                   datas, LastLeasesInfos, req, net, snVars, histVars>>

SendP2PInfos ==
    /\ reporter.at = "send"
    /\ reporter' = IdleReporter
    /\ \/ net' = Sent([type |-> "infos", to |-> reporter.infos])
          /\ reordered' = (reordered \/ Messages("infos") # {})
          /\ UNCHANGED lost
       \/ MayFail /\ lost' = TRUE /\ UNCHANGED <<net, reordered>>
    /\ UNCHANGED <<peers, hasPendingChanges, IsWaitingCommunityDatas,
                   IsWaitingForLeasesInfos, datas, LastLeasesInfos, req, snVars, plan,
                   peerChanges, recoveries, missed, refused, overtaken>>

-----------------------------------------------------------------------------
(* The supernode. *)

(* handleP2PStateInfoMessage, for this edge and for the others. *)
SetP2PInfosFor(m, infos) ==
    /\ reported' = [reported EXCEPT ![m] = infos]
    /\ epoch' = epoch + 1

HandleP2PStateInfo ==
    \E msg \in Messages("infos") :
        /\ SetP2PInfosFor(Me, msg.to)
        /\ net' = Delivered(msg)
        /\ UNCHANGED <<edgeVars, req, histVars>>

OtherReports(m, infos) ==
    /\ epoch < plan.reports
    /\ SetP2PInfosFor(m, infos)
    /\ UNCHANGED <<edgeVars, req, net, histVars>>

(* handleP2PFullStateMessage: GetCommunityPeerP2PInfosDatas is the answer. *)
HandleFullStateRequest ==
    \E msg \in Messages("fullRequest") :
        /\ net' = Delivered(msg) (+) SetToBag(
                    {[type |-> "full", reach |-> reported, epoch |-> epoch]})
        /\ UNCHANGED <<edgeVars, req, snVars, histVars>>

HandleLeasesRequest ==
    \E msg \in Messages("leasesRequest") :
        /\ net' = Delivered(msg) (+) SetToBag({[type |-> "leases"]})
        /\ UNCHANGED <<edgeVars, req, snVars, histVars>>

Lose ==
    \E msg \in BagToSet(net) :
        /\ MayFail
        /\ net' = Delivered(msg) /\ lost' = TRUE
        /\ UNCHANGED <<edgeVars, req, snVars, plan, peerChanges, recoveries, missed,
                       reordered, refused, overtaken>>

-----------------------------------------------------------------------------
(* handleUDP of the edge. *)

(* Every request that is under way learns that its flag was cleared by     *)
(* something else than an answer. *)
Cleared(q) ==
    [r \in Requests |-> IF q[r].at \in {"none", "done", "error"} THEN q[r]
                        ELSE [q[r] EXCEPT !.cleared = TRUE]]

(* Mutant of HandleFullState: the flag is not cleared. *)
MutHandleFullState ==
    \E msg \in Messages("full") :
        /\ net' = Delivered(msg)
        /\ datas' = [reach |-> msg.reach, epoch |-> msg.epoch]
        /\ UNCHANGED <<peers, hasPendingChanges, reporter,
                       IsWaitingCommunityDatas, IsWaitingForLeasesInfos,
                       LastLeasesInfos, req, snVars, histVars>>

(* handleP2PFullStateMessage.  A map without entries is decoded as nil,    *)
(* which UpdateP2PCommunityDatas refuses. *)
HandleFullState ==
    \E msg \in Messages("full") :
        /\ net' = Delivered(msg)
        /\ IF Reporting(msg.reach) = {}
           THEN refused' = TRUE /\ UNCHANGED <<datas, IsWaitingCommunityDatas>>
           ELSE /\ datas' = [reach |-> msg.reach, epoch |-> msg.epoch]
                /\ IsWaitingCommunityDatas' = FALSE
                /\ UNCHANGED refused
        /\ UNCHANGED <<peers, hasPendingChanges, reporter,
                       IsWaitingForLeasesInfos, LastLeasesInfos, req, snVars, plan,
                       peerChanges, recoveries, missed, reordered, lost,
                       overtaken>>

HandleLeasesInfos ==
    \E msg \in Messages("leases") :
        /\ net' = Delivered(msg)
        /\ LastLeasesInfos' = "leases"
        /\ IsWaitingForLeasesInfos' = FALSE
        /\ overtaken' = (overtaken \/ \E r \in Requests :
                            req[r].kind = "leases" /\ req[r].at = "set")
        /\ UNCHANGED <<peers, hasPendingChanges, reporter, datas,
                       IsWaitingCommunityDatas, req, snVars, plan, peerChanges,
                       recoveries, missed, reordered, lost, refused>>

(* handleRegisterResponseMessage, after a restart of the supernode. *)
HandleRegisterResponse ==
    /\ recoveries < plan.recoveries
    /\ recoveries' = recoveries + 1
    /\ IsWaitingCommunityDatas' = FALSE
    /\ req' = Cleared(req)
    /\ UNCHANGED <<peers, hasPendingChanges, reporter, IsWaitingForLeasesInfos,
                   datas, LastLeasesInfos, net, snVars, plan, peerChanges, missed,
                   reordered, lost, refused, overtaken>>

-----------------------------------------------------------------------------
(* The HTTP requests: "json" is GetPeersJSON, "dot" GetPeersDot and        *)
(* GetPeersSVG, "offlines" GetOfflinesDot, "leases" GetLeasesInfosJSON. *)

(* No request for the full state is under way, and no answer to one. *)
Quiet == Messages("fullRequest") \cup Messages("full") = {}

Arrive(r, kind) ==
    /\ req[r].at = "none" /\ \A q \in Requests : q < r => req[q].at # "none"
    /\ req' = [req EXCEPT ![r] =
                [kind |-> kind, at |-> "check", late |-> FALSE,
                 alone |-> Quiet, cleared |-> FALSE, epoch |-> epoch,
                 result |-> None]]
    /\ UNCHANGED <<edgeVars, net, snVars, histVars>>

At(r, kinds, pc) == req[r].at = pc /\ req[r].kind \in kinds
Goto(r, pc) == req' = [req EXCEPT ![r].at = pc]

(* Mutant of CheckCommunityDatas: datas that are there are good enough. *)
MutCheckCommunityDatas(r) ==
    /\ At(r, {"json", "dot"}, "check")
    /\ Goto(r, IF IsWaitingCommunityDatas \/ datas # None THEN "poll" ELSE "set")
    /\ UNCHANGED <<edgeVars, net, snVars, histVars>>

(* sendP2PFullStateRequest: test the flag, set it, send. *)
CheckCommunityDatas(r) ==
    /\ At(r, {"json", "dot"}, "check")
    /\ Goto(r, IF IsWaitingCommunityDatas THEN "poll" ELSE "set")
    /\ UNCHANGED <<edgeVars, net, snVars, histVars>>

(* Mutant of SetWaitingCommunityDatas: it is set before it is tested. *)
MutSetWaitingCommunityDatas(r) ==
    /\ At(r, {"json", "dot"}, "set")
    /\ IsWaitingCommunityDatas' = TRUE
    /\ Goto(r, "poll")
    /\ UNCHANGED <<peers, hasPendingChanges, reporter, IsWaitingForLeasesInfos,
                   datas, LastLeasesInfos, net, snVars, histVars>>

SetWaitingCommunityDatas(r) ==
    /\ At(r, {"json", "dot"}, "set")
    /\ IsWaitingCommunityDatas' = TRUE
    /\ Goto(r, "send")
    /\ UNCHANGED <<peers, hasPendingChanges, reporter, IsWaitingForLeasesInfos,
                   datas, LastLeasesInfos, net, snVars, histVars>>

SendFullStateRequest(r) ==
    /\ At(r, {"json", "dot"}, "send")
    /\ \/ net' = Sent([type |-> "fullRequest"]) /\ Goto(r, "poll")
          /\ UNCHANGED lost
       \/ MayFail /\ lost' = TRUE /\ Goto(r, "error") /\ UNCHANGED net
    /\ UNCHANGED <<edgeVars, snVars, plan, peerChanges, recoveries, missed, reordered,
                   refused, overtaken>>

(* sendLeasesInfosRequest: test the flag, send, set it. *)
CheckLeases(r) ==
    /\ At(r, {"leases"}, "check")
    /\ Goto(r, IF IsWaitingForLeasesInfos THEN "poll" ELSE "send")
    /\ UNCHANGED <<edgeVars, net, snVars, histVars>>

SendLeasesRequest(r) ==
    /\ At(r, {"leases"}, "send")
    /\ \/ net' = Sent([type |-> "leasesRequest"]) /\ Goto(r, "set")
          /\ UNCHANGED lost
       \/ MayFail /\ lost' = TRUE /\ Goto(r, "error") /\ UNCHANGED net
    /\ UNCHANGED <<edgeVars, snVars, plan, peerChanges, recoveries, missed, reordered,
                   refused, overtaken>>

SetWaitingForLeasesInfos(r) ==
    /\ At(r, {"leases"}, "set")
    /\ IsWaitingForLeasesInfos' = TRUE
    /\ Goto(r, "poll")
    /\ UNCHANGED <<peers, hasPendingChanges, reporter, IsWaitingCommunityDatas,
                   datas, LastLeasesInfos, net, snVars, histVars>>

(* GetOfflinesDot sends nothing. *)
CheckOfflines(r) ==
    /\ At(r, {"offlines"}, "check")
    /\ Goto(r, "poll")
    /\ UNCHANGED <<edgeVars, net, snVars, histVars>>

Waiting(r) == IF req[r].kind = "leases" THEN IsWaitingForLeasesInfos
              ELSE IsWaitingCommunityDatas

(* One round of the waiting loop: sleep, or answer. *)
Poll(r) ==
    /\ req[r].at = "poll"
    /\ req' = [req EXCEPT
                 ![r].at = IF Waiting(r) THEN "slept" ELSE "done",
                 ![r].result =
                    IF Waiting(r) THEN @
                    ELSE IF req[r].kind = "leases" THEN LastLeasesInfos
                    ELSE IF req[r].kind = "dot" /\ datas # None
                    THEN DotOf(datas)
                    ELSE datas]
    /\ UNCHANGED <<edgeVars, net, snVars, histVars>>

(* Three seconds have passed since WaitForCommunityDatasUpdate started. *)
Late(r) ==
    /\ req[r].at \in {"poll", "slept"} /\ ~req[r].late
    /\ req[r].kind \in {"dot", "offlines"}
    /\ req' = [req EXCEPT ![r].late = TRUE]
    /\ UNCHANGED <<edgeVars, net, snVars, histVars>>

(* Mutant of WakeUp: a late request does not clear the flag. *)
MutWakeUp(r) ==
    /\ req[r].at = "slept"
    /\ Goto(r, "poll")
    /\ UNCHANGED <<edgeVars, net, snVars, histVars>>

(* After the sleep: a late request clears the flag, which all share. *)
WakeUp(r) ==
    /\ req[r].at = "slept"
    /\ IF req[r].late
       THEN /\ IsWaitingCommunityDatas' = FALSE
            /\ req' = [Cleared(req) EXCEPT ![r].at = "poll"]
       ELSE Goto(r, "poll") /\ UNCHANGED IsWaitingCommunityDatas
    /\ UNCHANGED <<peers, hasPendingChanges, reporter, IsWaitingForLeasesInfos,
                   datas, LastLeasesInfos, net, snVars, histVars>>

Request(r) ==
    \/ CheckCommunityDatas(r) \/ SetWaitingCommunityDatas(r)
    \/ SendFullStateRequest(r)
    \/ CheckLeases(r) \/ SendLeasesRequest(r) \/ SetWaitingForLeasesInfos(r)
    \/ CheckOfflines(r) \/ Poll(r) \/ WakeUp(r)

Report == ReadP2PInfos \/ ClearPendingChanges \/ SendP2PInfos
Supernode == HandleP2PStateInfo \/ HandleFullStateRequest \/ HandleLeasesRequest
HandleUDP == HandleFullState \/ HandleLeasesInfos

Next ==
    \/ \E m \in Macs \ {Me} : ChangePeer(m)
    \/ \E m \in Macs \ {Me}, infos \in SUBSET {Me} : OtherReports(m, infos)
    \/ Report \/ Supernode \/ HandleUDP \/ HandleRegisterResponse \/ Lose
    \/ \E r \in Requests :
          Request(r) \/ Late(r) \/ \E kind \in plan.kinds[r] : Arrive(r, kind)

Spec == Init /\ [][Next]_vars

(* The goroutines run, time passes and what is not lost arrives. *)
FairSpec ==
    /\ Spec
    /\ WF_vars(Report) /\ WF_vars(Supernode) /\ WF_vars(HandleUDP)
    /\ \A r \in Requests : WF_vars(Request(r)) /\ WF_vars(Late(r))

-----------------------------------------------------------------------------
(* Properties. *)

(* A flag is set only while an answer can still clear it: a request is     *)
(* about to be sent, or it or its answer is under way, unless a datagram   *)
(* was lost or the answer was refused.  sendP2PFullStateRequest sets its   *)
(* flag before it sends; sendLeasesInfosRequest sets it afterwards, so the *)
(* answer may come first, and then nobody clears the flag any more. *)
WaitingForAnAnswer ==
    /\ IsWaitingCommunityDatas =>
        \/ Messages("fullRequest") \cup Messages("full") # {}
        \/ \E r \in Requests : At(r, {"json", "dot"}, "send")
        \/ lost \/ refused
    /\ IsWaitingForLeasesInfos =>
        \/ Messages("leasesRequest") \cup Messages("leases") # {}
        \/ lost \/ overtaken

(* When nothing is left to report, the supernode knows the peers of this   *)
(* edge, unless a change came after sendP2PInfos read the peers and before *)
(* it cleared the flag, two reports could overtake each other, or one was  *)
(* lost: then nothing repeats the report until the next change. *)
LastChangeReported ==
    ~hasPendingChanges /\ reporter.at = "idle" /\ Messages("infos") = {}
        => \/ missed \/ reordered \/ lost
           \/ reported[Me] = peers
           \/ reported[Me] = None /\ peers = {}

(* A request that began when no datagram of another was under way, and     *)
(* whose wait nobody cut short, answers with what the supernode knew when  *)
(* it began or later; otherwise it may get the answer to an earlier        *)
(* request, or old datas. *)
FreshWhenAlone ==
    \A r \in Requests :
        /\ req[r].at = "done" /\ req[r].kind \in {"json", "dot"}
        /\ req[r].alone /\ ~req[r].cleared
        => req[r].result # None /\ req[r].result.epoch >= req[r].epoch

(* The graph g shows what reach says. *)
Depicts(g, reach) ==
    LET Knows(a, b) == \E m, x \in Macs : Desc[m] = a /\ Desc[x] = b
                          /\ reach[m] # None /\ x \in reach[m]
        descs == {Desc[m] : m \in Macs}
    IN  /\ g.nodes = {Desc[m] : m \in Reporting(reach)}
        /\ \A a, b \in descs : a < b =>
             /\ <<a, b>> \in g.pairs <=> Knows(a, b) \/ Knows(b, a)
             /\ <<b, a>> \notin g.pairs
        /\ g.drawn = {}

(* The graph has a node for every edge that reported and one pair for two  *)
(* edges of which one reported the other, and draws none of them as a      *)
(* direct connection: a report does not say which peers are direct. *)
GraphOfReports ==
    \A r \in Requests :
        req[r].at = "done" /\ req[r].kind = "dot" /\ req[r].result # None =>
            Depicts(req[r].result.graph, req[r].result.reach)

(* Every request for a graph is answered, whatever is lost, because its    *)
(* wait ends after three seconds. *)
GraphsAnswered ==
    \A r \in Requests :
        req[r].at = "check" /\ req[r].kind \in {"dot", "offlines"}
            ~> req[r].at \in {"done", "error"}

(* Every request is answered unless a datagram is lost, an answer was      *)
(* refused because no edge has reported yet, or an answer came before its  *)
(* flag: GetPeersJSON and GetLeasesInfosJSON wait without a limit, and the *)
(* three exceptions leave them waiting for ever. *)
AnsweredUnlessStuck ==
    \A r \in Requests :
        req[r].at = "check"
            ~> req[r].at \in {"done", "error"} \/ lost \/ refused \/ overtaken

=============================================================================
