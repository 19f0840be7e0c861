----------------------- MODULE EdgeRegistrationProofs -----------------------
(***************************************************************************)
(* Type correctness of EdgeRegistration, and that the exchange an edge     *)
(* waits for is in flight, for every bound on losses, disturbances and     *)
(* starts.  The inductive invariant adds to both that a running edge has a *)
(* key, because its registrations and heartbeats carry it.                 *)
(***************************************************************************)
EXTENDS EdgeRegistration, TLAPS

\* A process that is past InitialGetSNPublicKey has a key, only a process that
\* is past InitialSetup waits, and every supernode process but the first
\* followed a disturbance.
HasKey ==
    /\ phase \in {"getAck", "run"} => key \in Epochs
    /\ phase \in {"getKey", "getAck"} => ~waitReg
    /\ epoch <= disturbed + 1

IInv == TypeOK /\ HasKey /\ ExchangeInFlight

-----------------------------------------------------------------------------
\* Before the edge starts, the invariant holds.
LEMMA InitIInv == Init => IInv
<1> SUFFICES ASSUME Init PROVE IInv
  BY Zenon
<1> USE EdgeRegistrationAssumption
<1>1. TypeOK
  <2>1. key = 0 /\ epoch = 1 /\ epoch \in Epochs
    BY DEF Init, Epochs
  <2>2. /\ wss \in BOOLEAN /\ interrupted \in BOOLEAN
        /\ registered \in BOOLEAN /\ waitKey \in BOOLEAN /\ waitReg \in BOOLEAN
        /\ known \in BOOLEAN /\ connected \in BOOLEAN
    BY Zenon DEF Init
  <2>3. lost \in 0..MaxLost /\ disturbed \in 0..MaxDisturbed /\ starts \in 0..MaxStarts
    BY DEF Init
  <2> QED
    BY <2>1, <2>2, <2>3, Zenon DEF Init, TypeOK
<1>2. HasKey
  BY DEF Init, HasKey
<1>3. ExchangeInFlight
  BY Zenon DEF Init, ExchangeInFlight
<1> QED
  BY <1>1, <1>2, <1>3, Zenon DEF IInv

\* What the supernode answers is a message for the edge (supernode.go,
\* ProcessPacket).
LEMMA SNAnswerType ==
    ASSUME TypeOK, NEW m \in ToSN
    PROVE  SNAnswer(m) \subseteq ToEdge
BY DEF SNAnswer, TypeOK, ToEdge, Plain, Keyed

\* The supernode handles a message: an answer takes the place of the request in
\* the exchange (supernode.go, ProcessPacket).
LEMMA ProcessPacketStep ==
    ASSUME IInv, NEW m \in toSN, ProcessPacket(m)
    PROVE  IInv'
<1>1. m \in ToSN /\ m.type \in {"keyReq", "query", "register", "heartbeat", "unregister"}
  BY Zenon DEF IInv, TypeOK, ToSN
<1>2. SNAnswer(m) \subseteq ToEdge
  BY <1>1, SNAnswerType, Zenon DEF IInv
<1>3. /\ toSN' = toSN \ {m}
      /\ toEdge' = toEdge \cup SNAnswer(m)
      /\ UNCHANGED <<wss, phase, registered, waitKey, waitReg, key, epoch, connected,
                     lost, disturbed, starts>>
  BY Zenon DEF ProcessPacket, flags, counters
<1>4. known' \in BOOLEAN
  BY <1>1, Zenon DEF ProcessPacket, SNKnows, IInv, TypeOK
<1>5. interrupted' \in BOOLEAN /\ (~interrupted' => ~interrupted /\ ~Refused(m))
  BY Zenon DEF ProcessPacket, IInv, TypeOK
<1>6. TypeOK'
  BY <1>2, <1>3, <1>4, <1>5, Zenon DEF IInv, TypeOK
<1>7. HasKey'
  BY <1>3, Zenon DEF IInv, HasKey
<1>8. ExchangeInFlight'
  <2> SUFFICES ASSUME phase = "run", waitReg, connected, ~interrupted'
               PROVE  Underway'
    BY <1>3, Zenon DEF ExchangeInFlight
  <2>1. Underway
    BY <1>5, Zenon DEF IInv, ExchangeInFlight
  <2>2. CASE m = Plain("keyReq")
    <3>1. Keyed("key", epoch) \in toEdge' /\ epoch \in Epochs
      BY <2>2, <1>3, Zenon DEF SNAnswer, Plain, IInv, TypeOK
    <3> QED
      BY <3>1, Zenon DEF Underway, Epochs
  <2>3. CASE \E k \in Epochs : m = Keyed("register", k)
    <3>1. m.key = epoch
      BY <2>3, <1>5 DEF Refused, Keyed
    <3>2. Plain("ok") \in toEdge'
      BY <2>3, <3>1, <1>3 DEF SNAnswer, Keyed
    <3> QED
      BY <3>2, Zenon DEF Underway
  <2>4. CASE m # Plain("keyReq") /\ ~\E k \in Epochs : m = Keyed("register", k)
    BY <2>1, <2>4, <1>3, Zenon DEF Underway, Plain, Keyed
  <2> QED
    BY <2>2, <2>3, <2>4, Zenon
<1> QED
  BY <1>6, <1>7, <1>8, Zenon DEF IInv

\* The messages that are underway stay so when none is taken away.
LEMMA UnderwayKept ==
    ASSUME Underway, toSN \subseteq toSN', toEdge \subseteq toEdge'
    PROVE  Underway'
BY Zenon DEF Underway, Epochs

\* Sending keeps what is in flight (wire.go, SendStruct).
LEMMA SentType ==
    ASSUME IInv, NEW msgs \in SUBSET ToSN
    PROVE  /\ Sent(msgs) \subseteq ToSN
           /\ toSN \subseteq Sent(msgs)
           /\ connected => msgs \subseteq Sent(msgs)
BY Zenon DEF Sent, IInv, TypeOK

\* What the edge sends are messages for the supernode (requests.go, setup.go).
LEMMA MessageTypes ==
    /\ {Plain("keyReq")} \in SUBSET ToSN
    /\ {Plain("query")} \in SUBSET ToSN
    /\ \A k \in Epochs : /\ {Keyed("register", k)} \in SUBSET ToSN
                         /\ {Keyed("heartbeat", k)} \in SUBSET ToSN
                         /\ {Keyed("unregister", k)} \in SUBSET ToSN
BY DEF Plain, Keyed, ToSN

\* A step outside the exchange: nothing is taken away, and the edge does not
\* begin to wait.
LEMMA QuietStep ==
    ASSUME IInv, UNCHANGED <<wss, registered, waitKey, waitReg, key, epoch, lost>>,
           UNCHANGED <<phase, connected, interrupted>>,
           UNCHANGED <<disturbed, starts, known>>,
           toSN' \subseteq ToSN, toSN \subseteq toSN', toEdge' = toEdge
    PROVE  IInv'
<1>1. TypeOK'
  BY DEF IInv, TypeOK, Epochs
<1>2. HasKey'
  BY Zenon DEF IInv, HasKey
<1>3. ExchangeInFlight'
  BY UnderwayKept, Zenon DEF IInv, ExchangeInFlight
<1> QED
  BY <1>1, <1>2, <1>3, Zenon DEF IInv

\* A step after which the edge is not running, or not waiting, or not connected.
LEMMA NotWaitingStep ==
    ASSUME IInv, TypeOK', HasKey',
           phase' # "run" \/ ~waitReg' \/ ~connected' \/ interrupted'
    PROVE  IInv'
BY Zenon DEF IInv, ExchangeInFlight

-----------------------------------------------------------------------------
\* A new edge process asks for the key (setup.go, InitialGetSNPublicKey).
LEMMA StartStep ==
    ASSUME IInv, Start
    PROVE  IInv'
<1>1. /\ starts < MaxStarts /\ starts' = starts + 1
      /\ phase' = "getKey"
      /\ registered' = FALSE /\ waitKey' = FALSE /\ waitReg' = FALSE /\ key' = 0
      /\ connected' = TRUE /\ interrupted' = FALSE
      /\ toSN' = toSN \cup {Plain("keyReq")}
      /\ toEdge' \subseteq toEdge
      /\ UNCHANGED <<wss, epoch, known, lost, disturbed>>
  BY Zenon DEF Start
<1>2. toSN' \subseteq ToSN /\ toEdge' \subseteq ToEdge
  BY <1>1, MessageTypes, Zenon DEF IInv, TypeOK
<1>3. starts' \in 0..MaxStarts
  BY <1>1, EdgeRegistrationAssumption DEF IInv, TypeOK
<1>4. TypeOK'
  BY <1>1, <1>2, <1>3, Zenon DEF IInv, TypeOK
<1>5. HasKey'
  BY <1>1, Zenon DEF IInv, HasKey
<1> QED
  BY <1>1, <1>4, <1>5, NotWaitingStep, Zenon

\* A message for the edge is of one of four types, and only the key carries a
\* key (handlers.go).
LEMMA ToEdgeTypes ==
    ASSUME NEW m \in ToEdge
    PROVE  /\ m.type \in {"ok", "nack", "retry", "key"}
           /\ m.type = "key" => m.key \in Epochs /\ m = Keyed("key", m.key)
           /\ m.type = "ok" => m = Plain("ok")
BY Zenon DEF ToEdge, Plain, Keyed

\* The edge handles a message (setup.go; handlers.go).
LEMMA EdgeReadStep ==
    ASSUME IInv, NEW m \in toEdge, EdgeRead(m)
    PROVE  IInv'
<1>1. m \in ToEdge
  BY Zenon DEF IInv, TypeOK
<1>2. /\ toEdge' = toEdge \ {m}
      /\ UNCHANGED <<wss, epoch, known, connected, lost, disturbed, starts,
                     interrupted>>
  BY Zenon DEF EdgeRead, counters
<1>3. CASE InitialKey(m)
  <2>1. phase = "getKey" /\ phase' # "run" /\ UNCHANGED <<registered, waitKey, waitReg>>
    BY <1>3, Zenon DEF InitialKey
  <2>2. /\ phase' \in {"getAck", "off"}
        /\ key' \in Epochs \cup {0}
        /\ phase' = "getAck" => key' \in Epochs
        /\ toSN' \subseteq ToSN
    <3>1. CASE m.type = "key"
      BY <3>1, <1>1, <1>3, ToEdgeTypes, MessageTypes, SentType DEF InitialKey
    <3>2. CASE m.type # "key"
      BY <3>2, <1>3, Zenon DEF InitialKey, IInv, TypeOK
    <3> QED
      BY <3>1, <3>2, Zenon
  <2>3. TypeOK'
    BY <1>2, <2>1, <2>2, Zenon DEF IInv, TypeOK
  <2>4. HasKey'
    BY <1>2, <2>1, <2>2, Zenon DEF IInv, HasKey
  <2> QED
    BY <2>1, <2>3, <2>4, NotWaitingStep, Zenon
<1>4. CASE InitialAck(m)
  <2>1. /\ phase = "getAck" /\ phase' \in {"run", "off"}
        /\ UNCHANGED <<waitKey, waitReg, key>>
    BY <1>4, Zenon DEF InitialAck
  <2>2. registered' \in BOOLEAN /\ toSN' \subseteq ToSN
    <3>1. CASE m.type = "ok"
      BY <3>1, <1>4, MessageTypes, SentType DEF InitialAck
    <3>2. CASE m.type # "ok"
      BY <3>2, <1>4, Zenon DEF InitialAck, IInv, TypeOK
    <3> QED
      BY <3>1, <3>2, Zenon
  <2>3. TypeOK'
    BY <1>2, <2>1, <2>2, Zenon DEF IInv, TypeOK
  <2>4. HasKey'
    BY <1>2, <2>1, Zenon DEF IInv, HasKey
  <2>5. ~waitReg'
    BY <2>1, Zenon DEF IInv, HasKey
  <2> QED
    BY <2>3, <2>4, <2>5, NotWaitingStep, Zenon
<1>5. CASE phase = "run" /\ HandleKey(m) /\ UNCHANGED phase
  <2>1. /\ m.type = "key" /\ key' = m.key /\ waitKey' = FALSE
        /\ UNCHANGED <<phase, registered, waitReg>>
        /\ toSN' = IF waitReg THEN Sent({Keyed("register", m.key)}) ELSE toSN
    BY <1>5, Zenon DEF HandleKey
  <2>2. m.key \in Epochs
    BY <1>1, <2>1, ToEdgeTypes, Zenon
  <2>3. {Keyed("register", m.key)} \in SUBSET ToSN
    BY <2>2, MessageTypes, Zenon
  <2>4. toSN' \subseteq ToSN /\ (waitReg /\ connected => Keyed("register", m.key) \in toSN')
    BY <2>1, <2>3, SentType, Zenon DEF IInv, TypeOK
  <2>5. TypeOK'
    BY <1>2, <2>1, <2>2, <2>4, Zenon DEF IInv, TypeOK
  <2>6. HasKey'
    BY <1>2, <2>1, <2>2, Zenon DEF IInv, HasKey, Epochs
  <2>7. ExchangeInFlight'
    BY <1>2, <2>1, <2>2, <2>4, Zenon DEF ExchangeInFlight, Underway, Epochs
  <2> QED
    BY <2>5, <2>6, <2>7 DEF IInv
<1>6. CASE phase = "run" /\ HandleRegisterResponse(m) /\ UNCHANGED phase
  <2>1. CASE m.type = "nack"
    <3>1. UNCHANGED <<phase, registered, waitKey, waitReg, key, toSN>>
      BY <1>6, <2>1, Zenon DEF HandleRegisterResponse, flags
    <3>2. TypeOK'
      BY <1>2, <3>1 DEF IInv, TypeOK
    <3>3. HasKey'
      BY <1>2, <3>1, Zenon DEF IInv, HasKey
    <3>4. ExchangeInFlight'
      BY <1>2, <3>1, <2>1 DEF IInv, ExchangeInFlight, Underway, Epochs, Plain, Keyed
    <3> QED
      BY <3>2, <3>3, <3>4 DEF IInv
  <2>2. CASE m.type = "ok"
    <3>1. /\ registered' = TRUE /\ waitReg' = FALSE
          /\ toSN' = Sent({Plain("query")})
          /\ UNCHANGED <<phase, waitKey, key>>
      BY <1>6, <2>2, Zenon DEF HandleRegisterResponse
    <3>2. TypeOK'
      BY <1>2, <3>1, MessageTypes, SentType, Zenon DEF IInv, TypeOK
    <3>3. HasKey'
      BY <1>2, <3>1, Zenon DEF IInv, HasKey
    <3> QED
      BY <3>1, <3>2, <3>3, NotWaitingStep, Zenon
  <2> QED
    BY <1>6, <2>1, <2>2, Zenon DEF HandleRegisterResponse
<1>7. CASE phase = "run" /\ HandleRetry(m) /\ UNCHANGED phase
  <2>1. CASE waitReg
    <3>1. m.type = "retry" /\ UNCHANGED <<phase, registered, waitKey, waitReg, key, toSN>>
      BY <1>7, <2>1, Zenon DEF HandleRetry, flags
    <3>2. TypeOK'
      BY <1>2, <3>1 DEF IInv, TypeOK
    <3>3. HasKey'
      BY <1>2, <3>1, Zenon DEF IInv, HasKey
    <3>4. ExchangeInFlight'
      BY <1>2, <3>1 DEF IInv, ExchangeInFlight, Underway, Epochs, Plain, Keyed
    <3> QED
      BY <3>2, <3>3, <3>4 DEF IInv
  <2>2. CASE ~waitReg
    <3>1. /\ toSN' = Sent({Plain("keyReq")})
          /\ waitKey' = TRUE /\ waitReg' = TRUE
          /\ UNCHANGED <<phase, registered, key>>
      BY <1>7, <2>2, Zenon DEF HandleRetry
    <3>2. toSN' \subseteq ToSN /\ (connected => Plain("keyReq") \in toSN')
      BY <3>1, MessageTypes, SentType, Zenon
    <3>3. TypeOK'
      BY <1>2, <3>1, <3>2, Zenon DEF IInv, TypeOK
    <3>4. HasKey'
      BY <1>2, <1>7, <3>1, Zenon DEF IInv, HasKey
    <3>5. ExchangeInFlight'
      BY <1>2, <3>2, Zenon DEF ExchangeInFlight, Underway
    <3> QED
      BY <3>3, <3>4, <3>5 DEF IInv
  <2> QED
    BY <2>1, <2>2, Zenon
<1>8. CASE phase = "off" /\ UNCHANGED <<phase, flags, toSN>>
  <2>1. phase' = "off" /\ UNCHANGED <<registered, waitKey, waitReg, key, toSN>>
    BY <1>8, Zenon DEF flags
  <2>2. TypeOK'
    BY <1>2, <2>1, Zenon DEF IInv, TypeOK
  <2>3. HasKey'
    BY <1>2, <2>1, Zenon DEF IInv, HasKey
  <2> QED
    BY <2>1, <2>2, <2>3, NotWaitingStep, Zenon
<1> QED
  BY <1>3, <1>4, <1>5, <1>6, <1>7, <1>8, Zenon DEF EdgeRead

-----------------------------------------------------------------------------
\* Heartbeats and queries are no part of the exchange (requests.go).
LEMMA SendingStep ==
    ASSUME IInv, SendHeartbeat \/ SendQuery
    PROVE  IInv'
<1>1. /\ UNCHANGED <<wss, registered, waitKey, waitReg, key, epoch, lost>>
      /\ UNCHANGED <<phase, connected, interrupted>>
      /\ UNCHANGED <<disturbed, starts, known, toEdge>>
      /\ phase = "run"
      /\ toSN' = Sent({Keyed("heartbeat", key)}) \/ toSN' = Sent({Plain("query")})
  BY Zenon DEF SendHeartbeat, SendQuery, flags, counters
<1>2. key \in Epochs
  BY <1>1, Zenon DEF IInv, HasKey
<1>3. toSN' \subseteq ToSN /\ toSN \subseteq toSN'
  BY <1>1, <1>2, MessageTypes, SentType, Zenon
<1> QED
  BY <1>1, <1>3, QuietStep, Zenon

\* There are enough epochs for the disturbances that are left.
LEMMA DisturbedCounts ==
    ASSUME IInv, disturbed < MaxDisturbed, disturbed' = disturbed + 1
    PROVE  /\ disturbed' \in 0..MaxDisturbed /\ disturbed <= disturbed'
           /\ epoch + 1 \in Epochs
           /\ epoch <= disturbed' + 1 /\ epoch + 1 <= disturbed' + 1
BY EdgeRegistrationAssumption DEF IInv, TypeOK, HasKey, Epochs

\* The supernode forgets the edge (cleanup.go, CleanupStaleEdges).
LEMMA ExpiryStep ==
    ASSUME IInv, ExpireSilent \/ ExpireSuspended
    PROVE  IInv'
<1>1. /\ UNCHANGED <<wss, phase, registered, waitKey, waitReg, key, epoch, connected>>
      /\ UNCHANGED <<toSN, toEdge, lost, starts>>
      /\ known' = FALSE
      /\ interrupted' = interrupted \/ interrupted' = (interrupted \/ wss)
      /\ \/ UNCHANGED disturbed
         \/ disturbed < MaxDisturbed /\ disturbed' = disturbed + 1
  BY Zenon DEF ExpireSilent, ExpireSuspended, flags, net, counters
<1>2. disturbed' \in 0..MaxDisturbed /\ epoch <= disturbed' + 1
  BY <1>1, DisturbedCounts, Zenon DEF IInv, TypeOK, HasKey
<1>3. interrupted' \in BOOLEAN /\ (interrupted => interrupted')
  BY <1>1 DEF IInv, TypeOK
<1>4. TypeOK'
  BY <1>1, <1>2, <1>3, Zenon DEF IInv, TypeOK
<1>5. HasKey'
  BY <1>1, <1>2, Zenon DEF IInv, HasKey
<1>6. ExchangeInFlight'
  BY <1>1, <1>3, UnderwayKept, Zenon DEF IInv, ExchangeInFlight
<1> QED
  BY <1>4, <1>5, <1>6, Zenon DEF IInv

\* The initial setup fails (setup.go, InitialSetup).
LEMMA InitialTimeoutStep ==
    ASSUME IInv, InitialTimeout
    PROVE  IInv'
<1>1. /\ phase' = "off"
      /\ UNCHANGED <<wss, registered, waitKey, waitReg, key, epoch, known, connected>>
      /\ UNCHANGED <<toSN, toEdge, lost, disturbed, starts, interrupted>>
  BY Zenon DEF InitialTimeout, flags, net, counters
<1>2. TypeOK'
  BY <1>1, Zenon DEF IInv, TypeOK
<1>3. HasKey'
  BY <1>1, Zenon DEF IInv, HasKey
<1> QED
  BY <1>1, <1>2, <1>3, NotWaitingStep, Zenon

\* The edge unregisters and ends (requests.go, Unregister).
LEMMA CloseStep ==
    ASSUME IInv, Close
    PROVE  IInv'
<1>1. /\ phase = "run" /\ phase' = "off"
      /\ disturbed < MaxDisturbed /\ disturbed' = disturbed + 1
      /\ UNCHANGED <<wss, registered, waitKey, waitReg, key, epoch, known, connected>>
      /\ UNCHANGED <<toEdge, lost, starts, interrupted>>
      /\ toSN' = Sent({Keyed("unregister", key)}) \/ toSN' = toSN
  BY Zenon DEF Close, flags
<1>2. key \in Epochs
  BY <1>1, Zenon DEF IInv, HasKey
<1>3. toSN' \subseteq ToSN
  BY <1>1, <1>2, MessageTypes, SentType, Zenon DEF IInv, TypeOK
<1>4. TypeOK'
  BY <1>1, <1>3, DisturbedCounts, Zenon DEF IInv, TypeOK
<1>5. HasKey'
  BY <1>1, DisturbedCounts, Zenon DEF IInv, HasKey
<1> QED
  BY <1>1, <1>4, <1>5, NotWaitingStep, Zenon

\* The reconnection begins an exchange (routines.go, handleWSS).
LEMMA ReconnectStep ==
    ASSUME IInv, Reconnect
    PROVE  IInv'
<1>1. /\ phase = "run" /\ connected' = TRUE /\ registered' = FALSE /\ waitReg' = TRUE
      /\ toSN' = toSN \cup {Plain("keyReq")}
      /\ UNCHANGED <<wss, phase, waitKey, key, epoch, known, toEdge>>
      /\ UNCHANGED <<lost, disturbed, starts, interrupted>>
  BY Zenon DEF Reconnect, counters
<1>2. TypeOK'
  BY <1>1, MessageTypes, Zenon DEF IInv, TypeOK
<1>3. HasKey'
  BY <1>1, Zenon DEF IInv, HasKey
<1>4. ExchangeInFlight'
  BY <1>1, Zenon DEF ExchangeInFlight, Underway
<1> QED
  BY <1>2, <1>3, <1>4, Zenon DEF IInv

\* A new supernode process: a WSS connection breaks, and UDP messages stay in
\* flight.
LEMMA SNRestartStep ==
    ASSUME IInv, SNRestart
    PROVE  IInv'
<1>1. /\ disturbed < MaxDisturbed /\ disturbed' = disturbed + 1
      /\ epoch' = epoch + 1 /\ known' = FALSE
      /\ UNCHANGED <<wss, phase, registered, waitKey, waitReg, key>>
      /\ UNCHANGED <<lost, starts, interrupted>>
      /\ \/ connected' = FALSE /\ toSN' = {} /\ toEdge' = {}
         \/ UNCHANGED <<connected, toSN, toEdge>>
  BY Zenon DEF SNRestart, flags, net
<1>2. /\ connected' \in BOOLEAN /\ (connected' => connected)
      /\ toSN' \subseteq ToSN /\ toEdge' \subseteq ToEdge
      /\ connected' => toSN' = toSN /\ toEdge' = toEdge
  <2>1. CASE connected' = FALSE /\ toSN' = {} /\ toEdge' = {}
    BY <2>1, Zenon
  <2>2. CASE UNCHANGED <<connected, toSN, toEdge>>
    BY <2>2, Zenon DEF IInv, TypeOK
  <2> QED
    BY <1>1, <2>1, <2>2, Zenon
<1>3. epoch' \in Epochs /\ disturbed' \in 0..MaxDisturbed /\ epoch' <= disturbed' + 1
  BY <1>1, DisturbedCounts, Zenon
<1>4. TypeOK'
  BY <1>1, <1>2, <1>3, Zenon DEF IInv, TypeOK
<1>5. HasKey'
  BY <1>1, <1>3, Zenon DEF IInv, HasKey
<1>6. ExchangeInFlight'
  BY <1>1, <1>2, UnderwayKept, Zenon DEF IInv, ExchangeInFlight
<1> QED
  BY <1>4, <1>5, <1>6 DEF IInv

\* A WSS connection breaks (routines.go, handleWSS).
LEMMA DisconnectStep ==
    ASSUME IInv, Disconnect
    PROVE  IInv'
<1>1. /\ disturbed < MaxDisturbed /\ disturbed' = disturbed + 1
      /\ connected' = FALSE /\ toSN' = {} /\ toEdge' = {}
      /\ UNCHANGED <<wss, phase, registered, waitKey, waitReg, key, epoch, known>>
      /\ UNCHANGED <<lost, starts, interrupted>>
  BY Zenon DEF Disconnect, flags
<1>2. TypeOK'
  BY <1>1, DisturbedCounts DEF IInv, TypeOK
<1>3. HasKey'
  BY <1>1, DisturbedCounts, Zenon DEF IInv, HasKey
<1> QED
  BY <1>1, <1>2, <1>3, NotWaitingStep, Zenon

\* A lost message of the exchange interrupts it.
LEMMA LoseStep ==
    ASSUME IInv, NEW m \in toSN \cup toEdge, Lose(m)
    PROVE  IInv'
<1>1. /\ lost < MaxLost /\ lost' = lost + 1
      /\ toSN' = toSN \ {m} /\ toEdge' = toEdge \ {m}
      /\ interrupted' = (interrupted \/ (phase = "run" /\ m.type \in Exchange))
      /\ UNCHANGED <<wss, phase, registered, waitKey, waitReg, key, epoch, known>>
      /\ UNCHANGED <<connected, disturbed, starts>>
  BY Zenon DEF Lose, flags
<1>2. lost' \in 0..MaxLost
  BY <1>1, EdgeRegistrationAssumption DEF IInv, TypeOK
<1>3. interrupted' \in BOOLEAN
  BY <1>1, Zenon DEF IInv, TypeOK
<1>4. TypeOK'
  BY <1>1, <1>2, <1>3, Zenon DEF IInv, TypeOK
<1>5. HasKey'
  BY <1>1, Zenon DEF IInv, HasKey
<1>6. ExchangeInFlight'
  <2> SUFFICES ASSUME phase = "run", waitReg, connected, ~interrupted'
               PROVE  Underway'
    BY <1>1, Zenon DEF ExchangeInFlight
  <2>1. Underway /\ m.type \notin Exchange
    BY <1>1, Zenon DEF IInv, ExchangeInFlight
  <2>2. /\ m # Plain("keyReq") /\ m # Plain("ok")
        /\ \A k \in Epochs : m # Keyed("key", k) /\ m # Keyed("register", k)
    BY <2>1 DEF Plain, Keyed, Exchange
  <2> QED
    BY <1>1, <2>1, <2>2, Zenon DEF Underway, Epochs
<1> QED
  BY <1>4, <1>5, <1>6, Zenon DEF IInv

\* Steps of others.
LEMMA StutterStep ==
    ASSUME IInv, UNCHANGED vars
    PROVE  IInv'
<1>1. /\ UNCHANGED <<wss, phase, registered, waitKey, waitReg, key, epoch, known>>
      /\ UNCHANGED <<connected, toSN, toEdge, lost, disturbed, starts, interrupted>>
  BY Zenon DEF vars, flags, net, counters
<1>2. TypeOK'
  BY <1>1 DEF IInv, TypeOK
<1>3. HasKey'
  BY <1>1, Zenon DEF IInv, HasKey
<1>4. ExchangeInFlight'
  BY <1>1, UnderwayKept, Zenon DEF IInv, ExchangeInFlight
<1> QED
  BY <1>2, <1>3, <1>4, Zenon DEF IInv

-----------------------------------------------------------------------------
\* Every step of the edge, the supernode and the network keeps the inductive
\* invariant.
THEOREM Invariance == Spec => []IInv
<1>1. Init => IInv
  BY InitIInv, Zenon
<1>2. IInv /\ [Next]_vars => IInv'
  <2> SUFFICES ASSUME IInv, [Next]_vars PROVE IInv'
    BY Zenon
  <2>1. ASSUME NEW m \in toSN, ProcessPacket(m) PROVE IInv'
    BY <2>1, ProcessPacketStep, Zenon
  <2>2. ASSUME NEW m \in toEdge, EdgeRead(m) PROVE IInv'
    BY <2>2, EdgeReadStep
  <2>3. ASSUME NEW m \in toSN \cup toEdge, Lose(m) PROVE IInv'
    BY <2>3, LoseStep, Zenon
  <2>4. CASE Start \/ InitialTimeout \/ Close
    BY <2>4, StartStep, InitialTimeoutStep, CloseStep, Zenon
  <2>5. CASE SendHeartbeat \/ SendQuery \/ Reconnect
    BY <2>5, SendingStep, ReconnectStep, Zenon
  <2>6. CASE SNRestart \/ ExpireSilent \/ ExpireSuspended \/ Disconnect
    BY <2>6, SNRestartStep, ExpiryStep, DisconnectStep, Zenon
  <2>7. CASE UNCHANGED vars
    BY <2>7, StutterStep, Zenon
  <2> QED
    BY <2>1, <2>2, <2>3, <2>4, <2>5, <2>6, <2>7, Zenon DEF Next
<1> QED
  BY <1>1, <1>2, PTL DEF Spec

\* The flags, keys and messages of the registration protocol have their types,
\* whatever the bounds are: no registration carries a missing key.
THEOREM TypeCorrect == Spec => []TypeOK
BY Invariance, PTL DEF IInv

\* An edge that has stopped its heartbeats to wait for a registration
\* (handlers.go, handleRetryRegisterRequest; routines.go, handleWSS) has the
\* next message of the exchange in flight, for any number of losses, restarts
\* and disconnections, unless its exchange was interrupted.
THEOREM WaitingIsUnderway == Spec => []ExchangeInFlight
BY Invariance, PTL DEF IInv

=============================================================================
