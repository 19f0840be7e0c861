-------------------------- MODULE EdgeRegistration --------------------------
(***************************************************************************)
(* Registration and recovery: one edge (pkg/edge: setup.go, handlers.go,   *)
(* requests.go, routines.go) and what the supernode answers it             *)
(* (pkg/supernode: handlers.go, registration.go, ProcessPacket).           *)
(*                                                                         *)
(* A supernode process has its own RSA key pair; epoch numbers them.  What *)
(* an edge encrypts with the key of epoch k is readable in epoch k only.   *)
(* The supernode asks an edge it does not know to register again, and the  *)
(* edge then fetches the new key first.  While the edge waits for an       *)
(* answer it sends no heartbeats.                                          *)
(*                                                                         *)
(* The network reorders messages and, on UDP, loses them.  On WSS a        *)
(* connection carries both directions, breaks as a whole, and is opened    *)
(* again by handleWSS.                                                     *)
(***************************************************************************)
EXTENDS Naturals

CONSTANTS
    MaxLost,       \* bound on lost messages
    MaxDisturbed,  \* bound on restarts, expiries, disconnections and closes
    MaxStarts      \* bound on starts of the edge process

VARIABLES
    wss,           \* configuration: the edge reaches the supernode over WSS
    phase,         \* the edge process: "off", "getKey", "getAck", "run"
    registered,
    waitKey,       \* isWaitingForSNPubKeyUpdate
    waitReg,       \* isWaitingForSNRetryRegisterResponse
    key,           \* epoch of SNPubKey, 0 if nil
    epoch,         \* the running supernode process
    known,         \* the supernode has the edge in its community
    connected,     \* the WSS connection; always TRUE on UDP
    toSN, toEdge,  \* messages in flight
    lost, disturbed, starts,
    interrupted    \* history: something after which the edge is not recovered

net == <<toSN, toEdge>>
flags == <<registered, waitKey, waitReg, key>>
counters == <<lost, disturbed, starts>>
vars == <<wss, phase, flags, epoch, known, connected, net, counters, interrupted>>

Epochs == 1..(MaxDisturbed + 1)
Plain(t) == [type |-> t, key |-> 0]
Keyed(t, k) == [type |-> t, key |-> k]

\* "query" is any message the supernode only accepts of a known edge and that
\* needs no key: PeerListRequest, PeerP2PInfos, Data.
ToSN == [type: {"keyReq", "query"}, key: {0}]
          \cup [type: {"register", "heartbeat", "unregister"}, key: Epochs]
ToEdge == [type: {"ok", "nack", "retry"}, key: {0}] \cup [type: {"key"}, key: Epochs]

\* The messages of a registration, which are sent once.
Exchange == {"keyReq", "key", "register", "ok"}

ASSUME EdgeRegistrationAssumption ==
    /\ MaxLost \in Nat /\ MaxDisturbed \in Nat /\ MaxStarts \in Nat

Init ==
    /\ wss \in BOOLEAN
    /\ phase = "off"
    /\ registered = FALSE /\ waitKey = FALSE /\ waitReg = FALSE
    /\ key = 0
    /\ epoch = 1
    /\ known = FALSE
    /\ connected = TRUE
    /\ toSN = {} /\ toEdge = {}
    /\ lost = 0 /\ disturbed = 0 /\ starts = 0
    /\ interrupted = FALSE

Sent(msgs) == IF connected THEN toSN \cup msgs ELSE toSN

-----------------------------------------------------------------------------
(* The supernode *)

\* The answer to a message.  GetCommunity fails before the machine ID of a
\* heartbeat is decrypted, and after that of an unregistration.  ProcessPacket
\* then sends a RetryRegisterRequest, to UDP addresses only.
SNAnswer(m) ==
    CASE m.type = "keyReq"   -> {Keyed("key", epoch)}
      [] m.type = "register" -> {Plain(IF m.key = epoch THEN "ok" ELSE "nack")}
      [] OTHER -> IF ~known /\ ~wss /\ (m.type = "unregister" => m.key = epoch)
                  THEN {Plain("retry")} ELSE {}

\* Whether the edge is in its community afterwards.
SNKnows(m) ==
    CASE m.type = "register"   -> known \/ m.key = epoch
      [] m.type = "unregister" -> known /\ m.key # epoch
      [] OTHER                 -> known

\* History: the supernode refuses a registration; it removes an edge on WSS on
\* behalf of an earlier process of the edge.
Refused(m) == phase = "run" /\ m.type = "register" /\ m.key # epoch
LateUnregister(m) == m.type = "unregister" /\ wss /\ phase # "off"

ProcessPacket(m) ==
    /\ m \in toSN
    /\ toSN' = toSN \ {m}
    /\ toEdge' = toEdge \cup SNAnswer(m)
    /\ known' = SNKnows(m)
    /\ interrupted' = (interrupted \/ Refused(m) \/ LateUnregister(m))
    /\ UNCHANGED <<wss, phase, flags, epoch, connected, counters>>

-----------------------------------------------------------------------------
(* The edge: InitialSetup *)

\* InitialGetSNPublicKey asks for the key.
Start ==
    /\ phase = "off"
    /\ starts < MaxStarts
    /\ starts' = starts + 1
    /\ phase' = "getKey"
    /\ registered' = FALSE /\ waitKey' = FALSE /\ waitReg' = FALSE /\ key' = 0
    /\ connected' = TRUE
    /\ toSN' = toSN \cup {Plain("keyReq")}
    /\ toEdge' = IF wss THEN {} ELSE toEdge
    /\ interrupted' = FALSE
    /\ UNCHANGED <<wss, epoch, known, lost, disturbed>>

\* It takes the next packet for the answer; any other packet is an error, on
\* which the process ends.
InitialKey(m) ==
    /\ phase = "getKey"
    /\ IF m.type = "key"
       THEN /\ key' = m.key
            /\ toSN' = Sent({Keyed("register", m.key)})
            /\ phase' = "getAck"
       ELSE /\ phase' = "off"
            /\ UNCHANGED <<key, toSN>>
    /\ UNCHANGED <<registered, waitKey, waitReg>>

\* So does InitialRegister.  Run then requests the list of peers.
InitialAck(m) ==
    /\ phase = "getAck"
    /\ IF m.type = "ok"
       THEN /\ registered' = TRUE
            /\ toSN' = Sent({Plain("query")})
            /\ phase' = "run"
       ELSE /\ phase' = "off"
            /\ UNCHANGED <<registered, toSN>>
    /\ UNCHANGED <<waitKey, waitReg, key>>

\* The read deadline of 5 s passes, or the connection breaks.
InitialTimeout ==
    /\ phase \in {"getKey", "getAck"}
    /\ phase' = "off"
    /\ UNCHANGED <<wss, flags, epoch, known, connected, net, counters, interrupted>>

-----------------------------------------------------------------------------
(* The edge: message handlers *)

\* Mutant of HandleKey: the edge does not register with the new key.
HandleKeyOnly(m) ==
    /\ m.type = "key"
    /\ key' = m.key
    /\ waitKey' = FALSE
    /\ UNCHANGED <<registered, waitReg, toSN>>

HandleKey(m) ==
    /\ m.type = "key"
    /\ key' = m.key
    /\ waitKey' = FALSE
    /\ toSN' = IF waitReg THEN Sent({Keyed("register", m.key)}) ELSE toSN
    /\ UNCHANGED <<registered, waitReg>>

\* A refusal is an error that handleUDP logs; no flag changes.
HandleRegisterResponse(m) ==
    \/ /\ m.type = "nack"
       /\ UNCHANGED <<flags, toSN>>
    \/ /\ m.type = "ok"
       /\ registered' = TRUE
       /\ waitReg' = FALSE
       /\ toSN' = Sent({Plain("query")})
       /\ UNCHANGED <<waitKey, key>>

HandleRetry(m) ==
    /\ m.type = "retry"
    /\ IF waitReg
       THEN UNCHANGED <<flags, toSN>>
       ELSE /\ toSN' = Sent({Plain("keyReq")})
            /\ waitKey' = TRUE
            /\ waitReg' = TRUE
            /\ UNCHANGED <<registered, key>>

\* Messages for a process that ended are dropped.
EdgeRead(m) ==
    /\ m \in toEdge
    /\ toEdge' = toEdge \ {m}
    /\ \/ InitialKey(m)
       \/ InitialAck(m)
       \/ /\ phase = "run"
          /\ HandleKey(m) \/ HandleRegisterResponse(m) \/ HandleRetry(m)
          /\ UNCHANGED phase
       \/ phase = "off" /\ UNCHANGED <<phase, flags, toSN>>
    /\ UNCHANGED <<wss, epoch, known, connected, counters, interrupted>>

-----------------------------------------------------------------------------
(* The edge: tickers, TAP frames, shutdown, reconnection *)

SendHeartbeat ==
    /\ phase = "run"
    /\ ~waitKey /\ ~waitReg
    /\ toSN' = Sent({Keyed("heartbeat", key)})
    /\ UNCHANGED <<wss, phase, flags, epoch, known, connected, toEdge, counters,
                   interrupted>>

\* sendP2PInfos, and Data of handleTAP, which is sent whatever the flags are.
SendQuery ==
    /\ phase = "run"
    /\ toSN' = Sent({Plain("query")})
    /\ UNCHANGED <<wss, phase, flags, epoch, known, connected, toEdge, counters,
                   interrupted>>

\* Close sends an UnregisterRequest if the edge is registered.
Close ==
    /\ phase = "run"
    /\ disturbed < MaxDisturbed
    /\ disturbed' = disturbed + 1
    /\ phase' = "off"
    /\ toSN' = IF registered THEN Sent({Keyed("unregister", key)}) ELSE toSN
    /\ UNCHANGED <<wss, flags, epoch, known, connected, toEdge, lost, starts,
                   interrupted>>

\* Mutant of Reconnect: the edge is taken to be still registered.
ReconnectOnly ==
    /\ phase = "run"
    /\ ~connected
    /\ connected' = TRUE
    /\ UNCHANGED <<wss, phase, flags, epoch, known, net, counters, interrupted>>

\* handleWSS connects again and asks for the key; the answer to that makes the
\* edge register.
Reconnect ==
    /\ phase = "run"
    /\ ~connected
    /\ connected' = TRUE
    /\ registered' = FALSE
    /\ waitReg' = TRUE
    /\ toSN' = toSN \cup {Plain("keyReq")}
    /\ UNCHANGED <<wss, phase, waitKey, key, epoch, known, toEdge, counters,
                   interrupted>>

-----------------------------------------------------------------------------
(* What happens to them *)

\* A new supernode process, with new keys and without communities.
SNRestart ==
    /\ disturbed < MaxDisturbed
    /\ disturbed' = disturbed + 1
    /\ epoch' = epoch + 1
    /\ known' = FALSE
    /\ IF wss THEN connected' = FALSE /\ toSN' = {} /\ toEdge' = {}
              ELSE UNCHANGED <<connected, net>>
    /\ UNCHANGED <<wss, phase, flags, lost, starts, interrupted>>

\* CleanupStaleEdges removes an edge whose heartbeats the supernode does not
\* get, or cannot decrypt.  ExpiryDuration is 10 min: by then an exchange with
\* the supernode is over, or has stopped.
ExpireSilent ==
    /\ known
    /\ \/ phase = "off"
       \/ phase = "run" /\ (waitKey \/ waitReg \/ key # epoch \/ ~connected)
    /\ \A m \in toSN \cup toEdge : m.type \in {"query", "heartbeat", "retry"}
    /\ known' = FALSE
    /\ UNCHANGED <<wss, phase, flags, epoch, connected, net, counters, interrupted>>

\* It removes an edge that was cut off or suspended, and comes back afterwards.
ExpireSuspended ==
    /\ phase = "run"
    /\ known
    /\ disturbed < MaxDisturbed
    /\ disturbed' = disturbed + 1
    /\ known' = FALSE
    /\ interrupted' = (interrupted \/ wss)
    /\ UNCHANGED <<wss, phase, flags, epoch, connected, net, lost, starts>>

Disconnect ==
    /\ wss
    /\ phase # "off"
    /\ connected
    /\ disturbed < MaxDisturbed
    /\ disturbed' = disturbed + 1
    /\ connected' = FALSE
    /\ toSN' = {} /\ toEdge' = {}
    /\ UNCHANGED <<wss, phase, flags, epoch, known, lost, starts, interrupted>>

Lose(m) ==
    /\ m \in toSN \cup toEdge
    /\ ~wss
    /\ lost < MaxLost
    /\ lost' = lost + 1
    /\ toSN' = toSN \ {m}
    /\ toEdge' = toEdge \ {m}
    /\ interrupted' = (interrupted \/ (phase = "run" /\ m.type \in Exchange))
    /\ UNCHANGED <<wss, phase, flags, epoch, known, connected, disturbed, starts>>

-----------------------------------------------------------------------------
Next ==
    \/ \E m \in toSN : ProcessPacket(m)
    \/ \E m \in toEdge : EdgeRead(m)
    \/ Start
    \/ InitialTimeout
    \/ SendHeartbeat
    \/ SendQuery
    \/ Close
    \/ Reconnect
    \/ SNRestart
    \/ ExpireSilent
    \/ ExpireSuspended
    \/ Disconnect
    \/ \E m \in toSN \cup toEdge : Lose(m)

Spec == Init /\ [][Next]_vars

\* Messages that are not lost arrive and are handled, the heartbeat ticker
\* ticks, cleanupRoutine runs, and handleWSS keeps trying to connect.
FairSpec ==
    /\ Spec
    /\ \A m \in ToSN : WF_vars(ProcessPacket(m))
    /\ \A m \in ToEdge : WF_vars(EdgeRead(m))
    /\ WF_vars(SendHeartbeat)
    /\ WF_vars(ExpireSilent)
    /\ WF_vars(Reconnect)

-----------------------------------------------------------------------------
(* Properties *)

\* The state has its types.
TypeOK ==
    /\ wss \in BOOLEAN /\ interrupted \in BOOLEAN
    /\ phase \in {"off", "getKey", "getAck", "run"}
    /\ registered \in BOOLEAN /\ waitKey \in BOOLEAN /\ waitReg \in BOOLEAN
    /\ key \in Epochs \cup {0}
    /\ epoch \in Epochs
    /\ known \in BOOLEAN /\ connected \in BOOLEAN
    /\ toSN \subseteq ToSN /\ toEdge \subseteq ToEdge
    /\ lost \in 0..MaxLost /\ disturbed \in 0..MaxDisturbed /\ starts \in 0..MaxStarts

\* A message that takes a registration further is on its way.
Underway ==
    \/ Plain("keyReq") \in toSN
    \/ \E k \in Epochs : Keyed("key", k) \in toEdge
    \/ \E k \in Epochs : Keyed("register", k) \in toSN
    \/ Plain("ok") \in toEdge

\* While the edge waits for a registration and so sends no heartbeat, the next
\* message of the exchange is on its way: the request for the key, the key, the
\* registration or its confirmation, unless one was lost or refused.  Nothing
\* else would end the waiting, because a RetryRegisterRequest is ignored during
\* it (handlers.go, handleRetryRegisterRequest).
ExchangeInFlight ==
    phase = "run" /\ waitReg /\ connected /\ ~interrupted => Underway

\* A running edge that is in touch with the supernode: the supernode has it
\* registered, and the edge sends heartbeats that the supernode can decrypt.
InTouch == known /\ key = epoch /\ ~waitKey /\ ~waitReg

\* The edge recovers from restarts of the supernode, expiry, disconnections and
\* restarts of its own, with lost heartbeats, queries and retries: once the
\* disturbances are over, a running edge is in touch with the supernode again
\* and stays so, unless its recovery was interrupted: a message of the exchange
\* was lost or refused, or the supernode dropped an edge on WSS, to which it
\* sends no RetryRegisterRequest.
RecoveredUnlessInterrupted == <>[](phase = "run" /\ ~interrupted => InTouch)

\* A RetryRegisterRequest makes an edge "re-register (e.g., after SN restart)"
\* (README.md:660): a running edge is in touch with the supernode in the end.
Recovered == <>[](phase = "run" => InTouch)

=============================================================================
