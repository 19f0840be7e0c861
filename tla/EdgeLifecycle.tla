--------------------------- MODULE EdgeLifecycle ---------------------------
(***************************************************************************)
(* The life of an edge process: `edge up` (cmd/edge/edge_up.go), the       *)
(* construction, Run and Close of EdgeClient (pkg/edge/client.go), the     *)
(* loops that Run starts (routines.go), the NAT mapping (pkg/natclient)    *)
(* and the management server (pkg/management).                             *)
(*                                                                         *)
(* Two goroutines may call Close: main, when InitialSetup fails, and the   *)
(* goroutine that waits for a signal.  Close cancels the context half way; *)
(* Run then returns and main ends the process while Close goes on.  What   *)
(* Close must have done by then is done before the cancellation.           *)
(*                                                                         *)
(* Close begins with Unregister, which EdgeRegistration models.            *)
(***************************************************************************)
EXTENDS Naturals, Sequences

CONSTANTS
    Conns,     \* connections of management clients
    Early,     \* loops started before the PeerListRequest, besides tap and rx
    Late       \* loops started after it

Threads == {"main", "sig"}
Tickers == Early \cup Late
Loops == Tickers \cup {"tap", "rx"}

ASSUME EdgeLifecycleAssumption ==
    /\ Early \cap Late = {}
    /\ Tickers \cap {"tap", "rx"} = {}

VARIABLES
    mode,      \* configuration: the transport to the supernode
    pc,        \* where main and the signal goroutine are
    dead,      \* how the process ended, "no" while it runs
    signalled, \* the process has received SIGINT or SIGTERM
    nat,       \* NatClient: "none", or the protocol it speaks
    tracked,   \* MappedPorts of NatClient is not empty
    mapped,    \* the gateway: protocols by which it was given our mapping
    refused,   \* history: the gateway did not confirm a deletion
    quit,      \* the channel quit of the management server is closed
    listening, \* its listener is open; its socket file exists as long
    accept,    \* the accept loop
    conn,      \* the connections and their handlers
    cancelled, \* the context of the client
    loop,      \* the goroutines of Run
    wss,       \* WSSTransport
    expired,   \* the read deadline of Conn has passed
    tapClosed, connClosed

natVars == <<nat, tracked, mapped, refused>>
mgmtVars == <<quit, listening, accept, conn>>
devVars == <<wss, expired, tapClosed, connClosed>>
vars == <<mode, pc, dead, signalled, natVars, mgmtVars, cancelled, loop, devVars>>

Starting == {"upnp", "pmp", "start", "notify", "setup"}
Closing == {"cleanup", "quit", "listener", "mgmtWait", "cancel", "wss", "deadline",
            "wait", "blocked", "woken", "tapClose", "wssClose", "connClose", "exit"}
\* The steps of Close after Mgmt.Stop has returned.
Stopped == Closing \ {"cleanup", "quit", "listener", "mgmtWait"}

Init ==
    /\ mode \in {"udp", "ws", "wss"}
    /\ pc = [t \in Threads |-> IF t = "main" THEN "upnp" ELSE "off"]
    /\ dead = "no" /\ signalled = FALSE
    /\ nat = "none" /\ tracked = FALSE /\ mapped = {} /\ refused = FALSE
    /\ quit = FALSE /\ listening = FALSE /\ accept = "off"
    /\ conn = [c \in Conns |-> "none"]
    /\ cancelled = FALSE
    /\ loop = [g \in Loops |-> "none"]
    /\ wss = IF mode = "udp" THEN "nil" ELSE "open"
    /\ expired = FALSE /\ tapClosed = FALSE /\ connClosed = FALSE

Goto(t, s) == pc' = [pc EXCEPT ![t] = s]
Die(how) == dead' = how

-----------------------------------------------------------------------------
(* The WaitGroups. *)

\* wg of EdgeClient: a loop adds itself when it begins, not when it is started.
Active == {g \in Loops : loop[g] \in {"head", "body"}}

\* A management server whose handlers add themselves when they begin.
HandlingBegun == {c \in Conns : conn[c] \in {"auth", "refused", "command", "served"}}
\* wg of the management server: Start adds the accept loop, the accept loop
\* adds a handler before it starts it.
Handling == {c \in Conns : conn[c] \in {"spawned", "auth", "refused", "command", "served"}}
Serving == Handling # {} \/ accept \in {"head", "accept"}

-----------------------------------------------------------------------------
(* SetupNAT: UPnP first, then NAT-PMP.  A request that times out may have   *)
(* been carried out by the gateway.                                         *)

\* The gateway answered the request: NatClient is set and knows its mapping.
Granted(protocol) ==
    /\ nat' = protocol /\ tracked' = TRUE
    /\ mapped' = mapped \cup {protocol}
    /\ UNCHANGED refused
\* No gateway, a refusal, or an answer that came too late.
NotGranted(protocol) ==
    /\ mapped' \in {mapped, mapped \cup {protocol}}
    /\ UNCHANGED <<nat, tracked, refused>>

SetupUPnP ==
    /\ pc["main"] = "upnp"
    /\ \/ UNCHANGED natVars /\ Goto("main", "start")  \* no Conn, or a public address
       \/ mode = "udp" /\ Granted("upnp") /\ Goto("main", "start")
       \/ mode = "udp" /\ NotGranted("upnp") /\ Goto("main", "pmp")
    /\ UNCHANGED <<mode, dead, signalled, mgmtVars, cancelled, loop, devVars>>

SetupPMP ==
    /\ pc["main"] = "pmp"
    /\ Granted("pmp") \/ NotGranted("pmp")
    /\ Goto("main", "start")
    /\ UNCHANGED <<mode, dead, signalled, mgmtVars, cancelled, loop, devVars>>

\* The lease of a NAT-PMP mapping is a day; no code renews it.
LeaseEnds ==
    /\ "pmp" \in mapped
    /\ mapped' = mapped \ {"pmp"}
    /\ UNCHANGED <<mode, pc, dead, signalled, nat, tracked, refused, mgmtVars, cancelled, loop, devVars>>

-----------------------------------------------------------------------------
(* up: the rest of NewEdgeClient, the signal goroutine, InitialSetup, Run.  *)

\* log.Fatalf if the MAC address cannot be set or the socket not be opened.
StartManagement ==
    /\ pc["main"] = "start"
    /\ \/ Die("fatal") /\ UNCHANGED <<pc, mgmtVars>>
       \/ /\ listening' = TRUE /\ accept' = "head"
          /\ Goto("main", "notify")
          /\ UNCHANGED <<dead, quit, conn>>
    /\ UNCHANGED <<mode, signalled, natVars, cancelled, loop, devVars>>

Notify ==
    /\ pc["main"] = "notify"
    /\ pc' = [pc EXCEPT !["main"] = "setup", !["sig"] = "await"]
    /\ UNCHANGED <<mode, dead, signalled, natVars, mgmtVars, cancelled, loop, devVars>>

\* InitialSetup sets and resets the read deadline of Conn, and ends with a
\* write to the TAP device.
InitialSetup ==
    /\ pc["main"] = "setup"
    /\ \/ Goto("main", "cleanup")
       \/ ~tapClosed /\ Goto("main", "run")
    /\ expired' \in {expired, FALSE}
    /\ UNCHANGED <<mode, dead, signalled, natVars, mgmtVars, cancelled, loop, wss, tapClosed, connClosed>>

Spawn(S) == loop' = [g \in Loops |-> IF g \in S THEN "spawned" ELSE loop[g]]

Run ==
    /\ pc["main"] = "run"
    /\ Spawn(Early \cup {"tap", "rx"})
    /\ Goto("main", "request")
    /\ UNCHANGED <<mode, dead, signalled, natVars, mgmtVars, cancelled, devVars>>

RunLate ==
    /\ pc["main"] = "request"
    /\ Spawn(Late)
    /\ Goto("main", "ctx")
    /\ UNCHANGED <<mode, dead, signalled, natVars, mgmtVars, cancelled, devVars>>

\* A main that closes the client itself when Run has returned.
RunReturnsClosing ==
    /\ pc["main"] = "ctx" /\ cancelled
    /\ Goto("main", "cleanup")
    /\ UNCHANGED <<mode, dead, signalled, natVars, mgmtVars, cancelled, loop, devVars>>

\* Run returns when the context is cancelled, and main calls os.Exit(0).
RunReturns ==
    /\ pc["main"] = "ctx" /\ cancelled
    /\ Die("exit")
    /\ UNCHANGED <<mode, pc, signalled, natVars, mgmtVars, cancelled, loop, devVars>>

\* The HTTP API cannot listen, or stops: Logger.Fatal ends the process.
ApiFails ==
    /\ pc["main"] = "ctx"
    /\ Die("fatal")
    /\ UNCHANGED <<mode, pc, signalled, natVars, mgmtVars, cancelled, loop, devVars>>

\* Before signal.Notify a signal kills the process.
Signal ==
    /\ ~signalled
    /\ signalled' = TRUE
    /\ IF pc["sig"] = "off" THEN Die("killed") ELSE UNCHANGED dead
    /\ UNCHANGED <<mode, pc, natVars, mgmtVars, cancelled, loop, devVars>>

SignalReceived ==
    /\ pc["sig"] = "await" /\ signalled
    /\ Goto("sig", "cleanup")
    /\ UNCHANGED <<mode, dead, signalled, natVars, mgmtVars, cancelled, loop, devVars>>

-----------------------------------------------------------------------------
(* Close, by thread t. *)

\* The context is cancelled first, so that everything stops at once.
CancelFirst ==
    <<"cleanup", "cancel", "quit", "listener", "mgmtWait", "wss", "deadline", "wait",
      "tapClose", "wssClose", "connClose", "exit">>
\* The transport is closed before the context is cancelled.
TransportFirst ==
    <<"cleanup", "quit", "listener", "mgmtWait", "wss", "cancel", "deadline", "wait",
      "tapClose", "wssClose", "connClose", "exit">>
\* The device is closed before the wait, to wake the loop that reads from it.
DeviceFirst ==
    <<"cleanup", "quit", "listener", "mgmtWait", "cancel", "wss", "deadline", "tapClose",
      "wait", "wssClose", "connClose", "exit">>
\* The steps of Close.
CloseOrder ==
    <<"cleanup", "quit", "listener", "mgmtWait", "cancel", "wss", "deadline", "wait",
      "tapClose", "wssClose", "connClose", "exit">>

NextStep(s) == CloseOrder[(CHOOSE i \in DOMAIN CloseOrder : CloseOrder[i] = s) + 1]

At(t, s) == pc[t] = s /\ Goto(t, NextStep(s))

\* Cleanup of NatClient: nothing tracked; deleted, or no such entry; or the
\* gateway does not confirm, and the port stays in MappedPorts.  Two threads
\* in here at once use one map without a lock, which the runtime may detect.
Cleanup(t) ==
    /\ pc[t] = "cleanup"
    /\ \/ ~tracked /\ Goto(t, NextStep("cleanup")) /\ UNCHANGED <<dead, natVars>>
       \/ /\ tracked
          /\ Goto(t, NextStep("cleanup"))
          /\ \/ tracked' = FALSE /\ mapped' = mapped \ {nat} /\ UNCHANGED refused
             \/ mapped' \in {mapped, mapped \ {nat}} /\ refused' = TRUE /\ UNCHANGED tracked
          /\ UNCHANGED <<dead, nat>>
       \/ /\ tracked
          /\ \A u \in Threads : pc[u] = "cleanup"
          /\ Die("panic")
          /\ UNCHANGED <<pc, natVars>>
    /\ UNCHANGED <<mode, signalled, mgmtVars, cancelled, loop, devVars>>

\* Mgmt.Stop: closing a closed channel panics.
StopQuit(t) ==
    /\ pc[t] = "quit"
    /\ IF quit THEN Die("panic") /\ UNCHANGED <<pc, quit>>
               ELSE quit' = TRUE /\ Goto(t, NextStep("quit")) /\ UNCHANGED dead
    /\ UNCHANGED <<mode, signalled, natVars, listening, accept, conn, cancelled, loop, devVars>>

\* Closing the listener removes the socket file and drops who is not accepted.
StopListener(t) ==
    /\ At(t, "listener")
    /\ listening' = FALSE
    /\ conn' = [c \in Conns |-> IF conn[c] = "queued" THEN "none" ELSE conn[c]]
    /\ UNCHANGED <<mode, dead, signalled, natVars, quit, accept, cancelled, loop, devVars>>

StopWait(t) ==
    /\ At(t, "mgmtWait")
    /\ ~Serving
    /\ UNCHANGED <<mode, dead, signalled, natVars, mgmtVars, cancelled, loop, devVars>>

Cancel(t) ==
    /\ At(t, "cancel")
    /\ cancelled' = TRUE
    /\ UNCHANGED <<mode, dead, signalled, natVars, mgmtVars, loop, devVars>>

CloseWSS(t) ==
    /\ At(t, "wss") \/ At(t, "wssClose")
    /\ wss' = IF wss = "nil" THEN "nil" ELSE "closed"
    /\ UNCHANGED <<mode, dead, signalled, natVars, mgmtVars, cancelled, loop, expired, tapClosed, connClosed>>

ExpireReads(t) ==
    /\ At(t, "deadline")
    /\ expired' = (mode = "udp")
    /\ UNCHANGED <<mode, dead, signalled, natVars, mgmtVars, cancelled, loop, wss, tapClosed, connClosed>>

\* wg.Wait: through at once if no loop is counted, else blocked until the last
\* one leaves (LoopResult).
Wait(t) ==
    /\ IF Active = {} THEN At(t, "wait") ELSE pc[t] = "wait" /\ Goto(t, "blocked")
    /\ UNCHANGED <<mode, dead, signalled, natVars, mgmtVars, cancelled, loop, devVars>>

\* A waiter that wakes up and finds the counter in use again panics.
Wake(t) ==
    /\ pc[t] = "woken"
    /\ IF Active = {} THEN Goto(t, NextStep("wait")) /\ UNCHANGED dead
                      ELSE Die("panic") /\ UNCHANGED pc
    /\ UNCHANGED <<mode, signalled, natVars, mgmtVars, cancelled, loop, devVars>>

CloseTAP(t) ==
    /\ At(t, "tapClose")
    /\ tapClosed' = TRUE
    /\ UNCHANGED <<mode, dead, signalled, natVars, mgmtVars, cancelled, loop, wss, expired, connClosed>>

CloseConn(t) ==
    /\ At(t, "connClose")
    /\ connClosed' = (mode = "udp")
    /\ UNCHANGED <<mode, dead, signalled, natVars, mgmtVars, cancelled, loop, wss, expired, tapClosed>>

\* The callers of Close call os.Exit.
Exit(t) ==
    /\ pc[t] = "exit"
    /\ Die("exit")
    /\ UNCHANGED <<mode, pc, signalled, natVars, mgmtVars, cancelled, loop, devVars>>

Close(t) ==
    \/ Cleanup(t) \/ StopQuit(t) \/ StopListener(t) \/ StopWait(t) \/ Cancel(t) \/ CloseWSS(t)
    \/ ExpireReads(t) \/ Wait(t) \/ Wake(t) \/ CloseTAP(t) \/ CloseConn(t) \/ Exit(t)

-----------------------------------------------------------------------------
(* The management server: acceptLoop and handleConnection. *)

\* The loop looks at quit between two calls of Accept.
AcceptHead ==
    /\ accept = "head"
    /\ accept' = IF quit THEN "ended" ELSE "accept"
    /\ UNCHANGED <<mode, pc, dead, signalled, natVars, quit, listening, conn, cancelled, loop, devVars>>

Accept(c) ==
    /\ accept = "accept" /\ conn[c] = "queued"
    /\ conn' = [conn EXCEPT ![c] = "spawned"]
    /\ accept' = "head"
    /\ UNCHANGED <<mode, pc, dead, signalled, natVars, quit, listening, cancelled, loop, devVars>>

\* Accept fails: its deadline of a second, or the listener is closed.
AcceptError ==
    /\ accept = "accept"
    /\ accept' = IF ~listening /\ quit THEN "ended" ELSE "head"
    /\ UNCHANGED <<mode, pc, dead, signalled, natVars, quit, listening, conn, cancelled, loop, devVars>>

\* SendCommand dials the socket.
Connect(c) ==
    /\ listening /\ conn[c] = "none"
    /\ conn' = [conn EXCEPT ![c] = "queued"]
    /\ UNCHANGED <<mode, pc, dead, signalled, natVars, quit, listening, accept, cancelled, loop, devVars>>

Handler(c, from, to) ==
    /\ conn[c] = from
    /\ conn' = [conn EXCEPT ![c] = to]
    /\ UNCHANGED <<mode, pc, dead, signalled, natVars, quit, listening, accept, cancelled, loop, devVars>>

HandlerStart(c) == Handler(c, "spawned", "auth")
Authenticated(c) == Handler(c, "auth", "command")
\* A wrong password, none in five seconds, or the client is gone.
AuthFailed(c) == Handler(c, "auth", "refused")
RefusedEnd(c) == Handler(c, "refused", "none")
\* SendCommand sends one command and closes the connection with the answer.
Command(c) == Handler(c, "command", "served")
\* A handler without a deadline: only a client that has been served goes.
CommandsEndServed(c) == Handler(c, "served", "none")
\* The client is gone, said quit, or was silent for thirty seconds.
CommandsEnd(c) == Handler(c, "command", "none") \/ Handler(c, "served", "none")

\* What the client does, and what the handler does without it.
Client(c) == Connect(c) \/ Authenticated(c) \/ Command(c)
HandleConnection(c) == HandlerStart(c) \/ AuthFailed(c) \/ RefusedEnd(c) \/ CommandsEnd(c)

-----------------------------------------------------------------------------
(* The loops of Run. *)

LoopTo(g, s) == loop' = [loop EXCEPT ![g] = s]

\* The loop goes on, or returns; the last one to leave wakes who waits for it.
LoopResult(g, ends) ==
    /\ LoopTo(g, IF ends THEN "ended" ELSE "head")
    /\ pc' = [t \in Threads |->
                IF ends /\ pc[t] = "blocked" /\ Active = {g} THEN "woken" ELSE pc[t]]

LoopBegins(g) ==
    /\ loop[g] = "spawned"
    /\ LoopTo(g, "head")
    /\ UNCHANGED <<mode, pc, dead, signalled, natVars, mgmtVars, cancelled, devVars>>

\* tap and rx look at the context first; a ticker may be chosen over it.
LoopHead(g) ==
    /\ loop[g] = "head"
    /\ \/ cancelled /\ LoopResult(g, TRUE)
       \/ (~cancelled \/ g \in Tickers) /\ LoopTo(g, "body") /\ UNCHANGED pc
    /\ UNCHANGED <<mode, dead, signalled, natVars, mgmtVars, cancelled, devVars>>

\* A ticker sends its message; errors are logged.
Tick(g) ==
    /\ g \in Tickers /\ loop[g] = "body"
    /\ LoopTo(g, "head")
    /\ UNCHANGED <<mode, pc, dead, signalled, natVars, mgmtVars, cancelled, devVars>>

\* The read returns with a frame, which is dropped or sent, or with an error.
\* The loop ends on a device or a transport that was closed.
TapRead ==
    /\ loop["tap"] = "body"
    /\ \E ends \in BOOLEAN :
          /\ ends => tapClosed \/ connClosed \/ wss = "closed"
          /\ tapClosed => ends
          /\ LoopResult("tap", ends)
    /\ UNCHANGED <<mode, dead, signalled, natVars, mgmtVars, cancelled, devVars>>

\* A packet was read from the transport and handled; the loop ends if its
\* frame was for a closed device.
RxPacket ==
    /\ loop["rx"] = "body"
    /\ (mode = "udp" /\ ~connClosed) \/ wss = "open"
    /\ \E ends \in BOOLEAN : (ends => tapClosed) /\ LoopResult("rx", ends)
    /\ UNCHANGED <<mode, dead, signalled, natVars, mgmtVars, cancelled, devVars>>

RxUDPError ==
    /\ loop["rx"] = "body" /\ mode = "udp"
    /\ connClosed \/ expired
    /\ LoopResult("rx", connClosed)
    /\ UNCHANGED <<mode, dead, signalled, natVars, mgmtVars, cancelled, devVars>>

\* The connection breaks: WSSTransport is set to nil.
RxDisconnect ==
    /\ loop["rx"] = "body" /\ wss = "open"
    /\ wss' = "nil"
    /\ LoopTo("rx", "head")
    /\ UNCHANGED <<mode, pc, dead, signalled, natVars, mgmtVars, cancelled, expired, tapClosed, connClosed>>

\* The connection was closed by Close.
RxClosed ==
    /\ loop["rx"] = "body" /\ wss = "closed"
    /\ LoopResult("rx", TRUE)
    /\ UNCHANGED <<mode, dead, signalled, natVars, mgmtVars, cancelled, devVars>>

\* Not connected: a ws edge has no wssConfig and its loop returns; a wss edge
\* sleeps and dials.
RxReconnect ==
    /\ loop["rx"] = "body" /\ mode # "udp" /\ wss = "nil"
    /\ IF mode = "ws" THEN LoopResult("rx", TRUE) /\ UNCHANGED wss
                      ELSE LoopTo("rx", "head") /\ wss' \in {"nil", "open"} /\ UNCHANGED pc
    /\ UNCHANGED <<mode, dead, signalled, natVars, mgmtVars, cancelled, expired, tapClosed, connClosed>>

-----------------------------------------------------------------------------
Up ==
    \/ SetupUPnP \/ SetupPMP \/ StartManagement \/ Notify \/ InitialSetup
    \/ Run \/ RunLate \/ RunReturns

ThreadStep(t) ==
    \/ t = "main" /\ Up
    \/ t = "sig" /\ SignalReceived
    \/ Close(t)

AcceptLoop == AcceptHead \/ AcceptError \/ \E c \in Conns : Accept(c)

\* What a loop does without waiting for a frame or a packet.
LoopStep(g) ==
    \/ LoopBegins(g) \/ LoopHead(g) \/ Tick(g)
    \/ g = "rx" /\ (RxUDPError \/ RxClosed \/ RxReconnect)

Environment ==
    \/ Signal \/ ApiFails \/ LeaseEnds
    \/ TapRead \/ RxPacket \/ RxDisconnect
    \/ \E c \in Conns : Client(c)

Process ==
    \/ \E t \in Threads : ThreadStep(t)
    \/ AcceptLoop
    \/ \E c \in Conns : HandleConnection(c)
    \/ \E g \in Loops : LoopStep(g)

Next == dead = "no" /\ (Process \/ Environment)

Spec == Init /\ [][Next]_vars

\* Every goroutine is scheduled; reads with a deadline return.  Nothing is
\* assumed of signals, frames, packets or clients.
Fairness ==
    /\ \A t \in Threads : WF_vars(dead = "no" /\ ThreadStep(t))
    /\ WF_vars(dead = "no" /\ AcceptLoop)
    /\ \A c \in Conns : WF_vars(dead = "no" /\ HandleConnection(c))
    /\ \A g \in Loops : WF_vars(dead = "no" /\ LoopStep(g))

FairSpec == Spec /\ Fairness

-----------------------------------------------------------------------------
(* Properties. *)

\* A process that ends by os.Exit after Close or Run has removed the socket of
\* the management server, and has removed its port mapping unless the gateway
\* did not confirm it: main, which exits as soon as Run returns, never
\* overtakes these steps of Close.
CleanExit ==
    dead = "exit" => /\ ~listening
                     /\ tracked => refused

\* When Mgmt.Stop has returned, no connection is being handled and none will
\* be: the connection that Accept returned while Stop closed the listener is
\* waited for too.
StopIsComplete ==
    (\E t \in Threads : pc[t] \in Stopped) => ~Serving /\ ~listening

\* No loop is reading from or writing to the TAP device when it is closed,
\* although a loop joins the WaitGroup only after it was started: a loop that
\* Wait did not see finds the context cancelled.
NoUseAfterClose ==
    tapClosed => loop["tap"] # "body" /\ loop["rx"] # "body"

\* The loops run until the context is cancelled, whatever the transport does;
\* but the receiving loop of a ws edge ends when its connection breaks.
LoopsRunUntilCancelled ==
    \A g \in Loops :
        loop[g] = "ended" => cancelled \/ (g = "rx" /\ mode = "ws" /\ wss # "open")

\* Close runs twice, and may panic for it, only if the signal came during
\* InitialSetup; once Run was called the only panic left is that of the
\* WaitGroup which a loop joins while Wait returns.
PanicAfterRun ==
    dead = "panic" /\ pc["main"] \notin Starting /\ loop["rx"] # "none"
        => Active # {} /\ \E t \in Threads : pc[t] = "woken"

\* A process that receives a signal ends, though handleTAP may never return
\* from its read and clients may be silent on the management socket.
SignalEndsProcess == signalled ~> dead # "no"

=============================================================================
