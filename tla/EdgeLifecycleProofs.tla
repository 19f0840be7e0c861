------------------------ MODULE EdgeLifecycleProofs ------------------------
(***************************************************************************)
(* The safety properties of EdgeLifecycle for any number of loops and       *)
(* management connections.  They rest on one fact about Close: at most one  *)
(* thread gets past the closing of quit (a second one panics), so the state *)
(* of everything Close touches follows from how far that thread is.         *)
(***************************************************************************)
EXTENDS EdgeLifecycle, TLAPS

-----------------------------------------------------------------------------
(* The inductive invariant. *)

Places == Starting \cup {"run", "request", "ctx", "off", "await"} \cup Closing

Typed ==
    /\ pc \in [Threads -> Places]
    /\ loop \in [Loops -> {"none", "spawned", "head", "body", "ended"}]
    /\ conn \in [Conns -> {"none", "queued", "spawned", "auth", "refused",
                            "command", "served"}]

\* The signal goroutine is started after NewEdgeClient, the loops by Run.
Begun ==
    /\ pc["main"] \in {"upnp", "pmp", "start", "notify"} => pc["sig"] = "off"
    /\ loop["rx"] # "none" => pc["main"] \in {"request", "ctx"}

\* The steps of Close once the channel quit is closed.
PastQuit == Closing \ {"cleanup", "quit"}

\* One thread at most is past the closing of quit.
QuitOnce ==
    /\ \A t \in Threads : pc[t] \in PastQuit => quit
    /\ quit => pc["main"] \in PastQuit \/ pc["sig"] \in PastQuit
    /\ ~(pc["main"] \in PastQuit /\ pc["sig"] \in PastQuit)

\* What a thread has done by the time it is so far in Close.
Done ==
    \A t \in Threads :
        /\ pc[t] \in Closing \ {"cleanup"} /\ tracked => refused
        /\ pc[t] \in PastQuit \ {"listener"} => ~listening
        /\ pc[t] \in Stopped => ~Serving

PastCancel == Stopped \ {"cancel"}
PastWait == {"tapClose", "wssClose", "connClose", "exit"}

\* The context is cancelled by the thread that is past it, and what Close
\* closes later is closed after that.
Cancellation ==
    /\ \A t \in Threads : pc[t] \in PastCancel => cancelled
    /\ cancelled => pc["main"] \in PastCancel \/ pc["sig"] \in PastCancel
    /\ connClosed \/ wss = "closed" => cancelled

\* When Wait has returned tap and rx are not at work, nor will they be.
Quiet ==
    /\ tapClosed => pc["main"] \in PastWait \/ pc["sig"] \in PastWait
    /\ \A t \in Threads :
          pc[t] \in PastWait => loop["tap"] # "body" /\ loop["rx"] # "body"

IInv ==
    /\ Typed /\ Begun /\ QuitOnce /\ Done /\ Cancellation /\ Quiet
    /\ LoopsRunUntilCancelled /\ CleanExit /\ PanicAfterRun

-----------------------------------------------------------------------------
(* The order of the steps of Close. *)

\* NextStep follows the calls of EdgeClient.Close.
LEMMA NextSteps ==
    /\ NextStep("cleanup") = "quit" /\ NextStep("quit") = "listener"
    /\ NextStep("listener") = "mgmtWait" /\ NextStep("mgmtWait") = "cancel"
    /\ NextStep("cancel") = "wss" /\ NextStep("wss") = "deadline"
    /\ NextStep("deadline") = "wait" /\ NextStep("wait") = "tapClose"
    /\ NextStep("tapClose") = "wssClose" /\ NextStep("wssClose") = "connClose"
    /\ NextStep("connClose") = "exit"
<1>1. NextStep("cleanup") = "quit" BY DEF NextStep, CloseOrder
<1>2. NextStep("quit") = "listener" BY DEF NextStep, CloseOrder
<1>3. NextStep("listener") = "mgmtWait" BY DEF NextStep, CloseOrder
<1>4. NextStep("mgmtWait") = "cancel" BY DEF NextStep, CloseOrder
<1>5. NextStep("cancel") = "wss" BY DEF NextStep, CloseOrder
<1>6. NextStep("wss") = "deadline" BY DEF NextStep, CloseOrder
<1>7. NextStep("deadline") = "wait" BY DEF NextStep, CloseOrder
<1>8. NextStep("wait") = "tapClose" BY DEF NextStep, CloseOrder
<1>9. NextStep("tapClose") = "wssClose" BY DEF NextStep, CloseOrder
<1>10. NextStep("wssClose") = "connClose" BY DEF NextStep, CloseOrder
<1>11. NextStep("connClose") = "exit" BY DEF NextStep, CloseOrder
<1> QED BY <1>1, <1>2, <1>3, <1>4, <1>5, <1>6, <1>7, <1>8, <1>9, <1>10, <1>11, Zenon

\* A process that has done nothing yet satisfies the invariant.
LEMMA InitInv == Init => IInv
<1> SUFFICES ASSUME Init PROVE IInv BY Zenon
<1>1. Typed BY Zenon DEF Init, Typed, Threads, Places, Starting
<1>2. pc["main"] = "upnp" /\ pc["sig"] = "off" BY Zenon DEF Init, Threads
<1>3. Begun /\ QuitOnce /\ Done /\ Cancellation /\ Quiet
  BY <1>2 DEF Init, Begun, QuitOnce, Done, Cancellation, Quiet, Threads, Closing,
     PastQuit, Stopped, PastCancel, PastWait, Loops, Serving, Handling
<1>4. LoopsRunUntilCancelled /\ CleanExit /\ PanicAfterRun
  BY Zenon DEF Init, LoopsRunUntilCancelled, CleanExit, PanicAfterRun, Loops
<1> QED BY <1>1, <1>3, <1>4, Zenon DEF IInv

\* What a conjunct of the invariant does not speak of may change freely.
LEMMA Frames ==
    /\ Typed /\ UNCHANGED <<pc, loop, conn>> => Typed'
    /\ Begun /\ UNCHANGED <<pc, loop>> => Begun'
    /\ QuitOnce /\ UNCHANGED <<pc, quit>> => QuitOnce'
    /\ Done /\ UNCHANGED <<pc, tracked, refused, listening, accept, conn>> => Done'
    /\ Cancellation /\ UNCHANGED <<pc, cancelled, connClosed, wss>> => Cancellation'
    /\ Quiet /\ UNCHANGED <<pc, loop, tapClosed>> => Quiet'
    /\ LoopsRunUntilCancelled /\ UNCHANGED <<mode, loop, cancelled, wss>>
          => LoopsRunUntilCancelled'
    /\ dead' = "no" => CleanExit' /\ PanicAfterRun'
<1>1. Typed /\ UNCHANGED <<pc, loop, conn>> => Typed' BY Zenon DEF Typed
<1>2. Begun /\ UNCHANGED <<pc, loop>> => Begun' BY Zenon DEF Begun
<1>3. QuitOnce /\ UNCHANGED <<pc, quit>> => QuitOnce' BY DEF QuitOnce
<1>4. Done /\ UNCHANGED <<pc, tracked, refused, listening, accept, conn>> => Done'
  BY DEF Done, Serving, Handling
<1>5. Cancellation /\ UNCHANGED <<pc, cancelled, connClosed, wss>> => Cancellation'
  BY DEF Cancellation
<1>6. Quiet /\ UNCHANGED <<pc, loop, tapClosed>> => Quiet' BY DEF Quiet
<1>7. LoopsRunUntilCancelled /\ UNCHANGED <<mode, loop, cancelled, wss>>
        => LoopsRunUntilCancelled'
  BY DEF LoopsRunUntilCancelled
<1>8. dead' = "no" => CleanExit' /\ PanicAfterRun' BY Zenon DEF CleanExit, PanicAfterRun
<1> QED BY <1>1, <1>2, <1>3, <1>4, <1>5, <1>6, <1>7, <1>8, Zenon

-----------------------------------------------------------------------------
(* The steps. *)

\* The steps of main up to the end of Run keep the invariant.
LEMMA UpKeeps ==
    ASSUME IInv, dead = "no",
           SetupUPnP \/ SetupPMP \/ StartManagement \/ Notify \/ InitialSetup \/
               Run \/ RunLate \/ RunReturns
    PROVE  IInv'
<1>1. CASE SetupUPnP
  <2>1. Typed'
    BY <1>1, Zenon DEF IInv, SetupUPnP, Typed, Places, Starting, Goto, mgmtVars
  <2>2. Begun' BY <1>1, Zenon DEF IInv, SetupUPnP, Begun, Typed, Threads, Goto
  <2>3. QuitOnce'
    BY <1>1 DEF IInv, SetupUPnP, QuitOnce, PastQuit, Closing, Typed, Threads,
       Goto, mgmtVars
  <2>4. Done'
    BY <1>1 DEF IInv, SetupUPnP, Done, PastQuit, Stopped, Closing, Typed, Begun,
       Threads, Goto
  <2>5. Cancellation'
    BY <1>1 DEF IInv, SetupUPnP, Cancellation, PastCancel, Stopped, Closing,
       Typed, Threads, Goto, devVars
  <2>6. Quiet'
    BY <1>1 DEF IInv, SetupUPnP, Quiet, PastWait, Typed, Threads, Goto, devVars
  <2>7. (LoopsRunUntilCancelled /\ CleanExit /\ PanicAfterRun)'
    BY <1>1, Frames, Zenon DEF IInv, SetupUPnP, natVars, mgmtVars, devVars
  <2> QED BY <2>1, <2>2, <2>3, <2>4, <2>5, <2>6, <2>7, Zenon DEF IInv
<1>2. CASE SetupPMP
  <2>1. Typed'
    BY <1>2, Zenon DEF IInv, SetupPMP, Typed, Places, Starting, Threads, Goto, mgmtVars
  <2>2. Begun' BY <1>2 DEF IInv, SetupPMP, Begun, Goto
  <2>3. QuitOnce'
    BY <1>2 DEF IInv, SetupPMP, QuitOnce, PastQuit, Closing, Goto, mgmtVars
  <2>4. Done'
    BY <1>2 DEF IInv, SetupPMP, Done, PastQuit, Stopped, Closing, Begun, Threads,
       Goto
  <2>5. Cancellation'
    BY <1>2 DEF IInv, SetupPMP, Cancellation, PastCancel, Stopped, Closing, Goto,
       devVars
  <2>6. Quiet' BY <1>2 DEF IInv, SetupPMP, Quiet, PastWait, Goto, devVars
  <2>7. (LoopsRunUntilCancelled /\ CleanExit /\ PanicAfterRun)'
    BY <1>2, Frames, Zenon DEF IInv, SetupPMP, natVars, mgmtVars, devVars
  <2> QED BY <2>1, <2>2, <2>3, <2>4, <2>5, <2>6, <2>7 DEF IInv
<1>3. CASE StartManagement
  <2>1. Typed'
    BY <1>3, Zenon DEF IInv, StartManagement, Typed, Places, Starting, Goto, mgmtVars
  <2>2. Begun' BY <1>3, Zenon DEF IInv, StartManagement, Begun, Typed, Threads, Goto
  <2>3. QuitOnce'
    BY <1>3 DEF IInv, StartManagement, QuitOnce, PastQuit, Closing, Typed,
       Threads, Goto, mgmtVars
  <2>4. Done'
    BY <1>3 DEF IInv, StartManagement, Done, PastQuit, Stopped, Closing, Typed,
       Begun, Threads, Goto
  <2>5. Cancellation'
    BY <1>3 DEF IInv, StartManagement, Cancellation, PastCancel, Stopped, Closing,
       Typed, Threads, Goto, devVars
  <2>6. Quiet'
    BY <1>3, Zenon DEF IInv, StartManagement, Quiet, PastWait, Typed, Threads, Goto,
       devVars
  <2>7. CleanExit' BY <1>3, Zenon DEF StartManagement, Die, CleanExit
  <2>8. PanicAfterRun' BY <1>3, Zenon DEF StartManagement, Die, PanicAfterRun
  <2>9. LoopsRunUntilCancelled'
    BY <1>3, Frames, Zenon DEF IInv, StartManagement, natVars, mgmtVars, devVars
  <2> QED BY <2>1, <2>2, <2>3, <2>4, <2>5, <2>6, <2>7, <2>8, <2>9, Zenon DEF IInv
<1>4. CASE Notify
  <2>1. Typed'
    BY <1>4, Zenon DEF IInv, Notify, Typed, Places, Starting, Threads, mgmtVars
  <2>2. Begun' BY <1>4, Zenon DEF IInv, Notify, Begun, Typed, Threads
  <2>3. QuitOnce'
    BY <1>4, Zenon DEF IInv, Notify, QuitOnce, PastQuit, Closing, Typed, Begun, Threads,
       mgmtVars
  <2>4. Done'
    BY <1>4, Zenon DEF IInv, Notify, Done, PastQuit, Stopped, Closing, Typed, Threads
  <2>5. Cancellation'
    BY <1>4 DEF IInv, Notify, Cancellation, PastCancel, Stopped, Closing, Typed,
       Begun, devVars
  <2>6. Quiet' BY <1>4, Zenon DEF IInv, Notify, Quiet, PastWait, Typed, Begun, devVars
  <2>7. (LoopsRunUntilCancelled /\ CleanExit /\ PanicAfterRun)'
    BY <1>4, Frames, Zenon DEF IInv, Notify, natVars, mgmtVars, devVars
  <2> QED BY <2>1, <2>2, <2>3, <2>4, <2>5, <2>6, <2>7 DEF IInv
<1>5. CASE InitialSetup
  <2>1. Typed'
    BY <1>5, Zenon DEF IInv, InitialSetup, Typed, Places, Closing, Goto, mgmtVars
  <2>2. Begun' BY <1>5, Zenon DEF IInv, InitialSetup, Begun, Typed, Goto
  <2>3. QuitOnce'
    BY <1>5 DEF IInv, InitialSetup, QuitOnce, PastQuit, Closing, Typed, Threads,
       Goto, mgmtVars
  <2>4. Done'
    BY <1>5 DEF IInv, InitialSetup, Done, PastQuit, Stopped, Closing, Serving,
       Handling, Typed, Goto, natVars, mgmtVars
  <2>5. Cancellation'
    BY <1>5 DEF IInv, InitialSetup, Cancellation, PastCancel, Stopped, Closing,
       Typed, Threads, Goto
  <2>6. Quiet'
    BY <1>5 DEF IInv, InitialSetup, Quiet, PastWait, Typed, Threads, Goto
  <2>7. (LoopsRunUntilCancelled /\ CleanExit /\ PanicAfterRun)'
    BY <1>5, Frames, Zenon DEF IInv, InitialSetup, natVars, mgmtVars, devVars
  <2> QED BY <2>1, <2>2, <2>3, <2>4, <2>5, <2>6, <2>7 DEF IInv
<1>6. CASE Run
  <2>1. Typed'
    BY <1>6, Zenon DEF IInv, Run, Spawn, Typed, Places, Threads, Goto, mgmtVars
  <2>2. Begun' BY <1>6, Zenon DEF IInv, Run, Begun, Typed, Threads, Goto
  <2>3. QuitOnce'
    BY <1>6 DEF IInv, Run, QuitOnce, PastQuit, Closing, Goto, mgmtVars
  <2>4. Done'
    BY <1>6 DEF IInv, Run, Done, PastQuit, Stopped, Closing, Serving, Handling,
       Goto, natVars, mgmtVars
  <2>5. Cancellation'
    BY <1>6 DEF IInv, Run, Cancellation, PastCancel, Stopped, Closing, Goto,
       devVars
  <2>6. Quiet' BY <1>6 DEF IInv, Run, Spawn, Quiet, PastWait, Loops, Goto, devVars
  <2>7. LoopsRunUntilCancelled'
    BY <1>6, Zenon DEF IInv, Run, Spawn, LoopsRunUntilCancelled
  <2>8. (CleanExit /\ PanicAfterRun)'
    BY <1>6, Frames, Zenon DEF IInv, Run, natVars, mgmtVars, devVars
  <2> QED BY <2>1, <2>2, <2>3, <2>4, <2>5, <2>6, <2>7, <2>8, Zenon DEF IInv
<1>7. CASE RunLate
  <2>1. Typed'
    BY <1>7, Zenon DEF IInv, RunLate, Spawn, Typed, Places, Threads, Goto, mgmtVars
  <2>2. Begun' BY <1>7 DEF RunLate, Begun, Goto
  <2>3. QuitOnce'
    BY <1>7 DEF IInv, RunLate, QuitOnce, PastQuit, Closing, Goto, mgmtVars
  <2>4. Done'
    BY <1>7 DEF IInv, RunLate, Done, PastQuit, Stopped, Closing, Serving,
       Handling, Goto, natVars, mgmtVars
  <2>5. Cancellation'
    BY <1>7 DEF IInv, RunLate, Cancellation, PastCancel, Stopped, Closing, Goto,
       devVars
  <2>6. Quiet'
    BY <1>7 DEF IInv, RunLate, Spawn, Quiet, PastWait, Loops, Goto, devVars
  <2>7. LoopsRunUntilCancelled'
    BY <1>7, Zenon DEF IInv, RunLate, Spawn, LoopsRunUntilCancelled, devVars
  <2>8. (CleanExit /\ PanicAfterRun)'
    BY <1>7, Frames, Zenon DEF IInv, RunLate, natVars, mgmtVars, devVars
  <2> QED BY <2>1, <2>2, <2>3, <2>4, <2>5, <2>6, <2>7, <2>8 DEF IInv
<1>8. CASE RunReturns
  <2>1. CleanExit'
    BY <1>8, Zenon DEF IInv, RunReturns, CleanExit, Cancellation, Done, PastQuit,
       Stopped, PastCancel, Threads, natVars, mgmtVars
  <2>2. PanicAfterRun' BY <1>8, Zenon DEF RunReturns, Die, PanicAfterRun
  <2>3. (Typed /\ Begun /\ QuitOnce /\ Done /\ Cancellation /\ Quiet /\
          LoopsRunUntilCancelled)'
    BY <1>8, Frames, Zenon DEF IInv, RunReturns, natVars, mgmtVars, devVars
  <2> QED BY <2>1, <2>2, <2>3, Zenon DEF IInv
<1> QED BY <1>1, <1>2, <1>3, <1>4, <1>5, <1>6, <1>7, <1>8, Zenon

\* The steps of EdgeClient.Close keep the invariant, in whichever thread.
LEMMA CloseKeeps ==
    ASSUME NEW t \in Threads, IInv, dead = "no",
           Cleanup(t) \/ StopQuit(t) \/ StopListener(t) \/ StopWait(t) \/
               Cancel(t) \/ CloseWSS(t) \/ ExpireReads(t) \/ Wait(t) \/ Wake(t)
               \/ CloseTAP(t) \/ CloseConn(t) \/ Exit(t)
    PROVE  IInv'
<1>1. CASE Cleanup(t)
  <2>1. Typed'
    BY <1>1, NextSteps DEF IInv, Cleanup, Typed, Places, Closing, Goto, mgmtVars
  <2>2. Begun' BY <1>1, NextSteps, Zenon DEF IInv, Cleanup, Begun, Typed, Threads, Goto
  <2>3. QuitOnce'
    BY <1>1, NextSteps DEF IInv, Cleanup, QuitOnce, PastQuit, Typed, Threads,
       Goto, mgmtVars
  <2>4. Done'
    BY <1>1, NextSteps DEF IInv, Cleanup, Done, PastQuit, Stopped, Serving,
       Handling, Typed, Goto, natVars, mgmtVars
  <2>5. Cancellation'
    BY <1>1, NextSteps DEF IInv, Cleanup, Cancellation, PastCancel, Stopped,
       Typed, Threads, Goto, devVars
  <2>6. Quiet'
    BY <1>1, NextSteps, Zenon DEF IInv, Cleanup, Quiet, PastWait, Typed, Threads, Goto,
       devVars
  <2>7. CleanExit' BY <1>1, Zenon DEF Cleanup, Die, CleanExit
  <2>8. PanicAfterRun' BY <1>1, Zenon DEF IInv, Cleanup, PanicAfterRun, Begun, Threads
  <2>9. LoopsRunUntilCancelled'
    BY <1>1, Frames, Zenon DEF IInv, Cleanup, natVars, mgmtVars, devVars
  <2> QED BY <2>1, <2>2, <2>3, <2>4, <2>5, <2>6, <2>7, <2>8, <2>9, Zenon DEF IInv
<1>2. CASE StopQuit(t)
  <2>1. Typed' BY <1>2, NextSteps DEF IInv, StopQuit, Typed, Places, Closing, Goto
  <2>2. Begun' BY <1>2, NextSteps, Zenon DEF IInv, StopQuit, Begun, Typed, Threads, Goto
  <2>3. QuitOnce'
    BY <1>2, NextSteps DEF IInv, StopQuit, QuitOnce, PastQuit, Closing, Typed,
       Threads, Goto
  <2>4. Done'
    BY <1>2, NextSteps DEF IInv, StopQuit, Done, Stopped, Closing, Serving,
       Handling, Typed, Goto, natVars
  <2>5. Cancellation'
    BY <1>2, NextSteps DEF IInv, StopQuit, Cancellation, PastCancel, Stopped,
       Typed, Threads, Goto, devVars
  <2>6. Quiet'
    BY <1>2, NextSteps, Zenon DEF IInv, StopQuit, Quiet, PastWait, Typed, Threads, Goto,
       devVars
  <2>7. CleanExit' BY <1>2, Zenon DEF StopQuit, Die, CleanExit
  <2>8. PanicAfterRun'
    BY <1>2, Zenon DEF IInv, StopQuit, PanicAfterRun, Begun, QuitOnce, Closing,
       PastQuit, Threads
  <2>9. LoopsRunUntilCancelled'
    BY <1>2, Frames, Zenon DEF IInv, StopQuit, natVars, mgmtVars, devVars
  <2> QED BY <2>1, <2>2, <2>3, <2>4, <2>5, <2>6, <2>7, <2>8, <2>9 DEF IInv
<1>3. CASE StopListener(t)
  <2>1. Typed'
    BY <1>3, NextSteps, Zenon DEF IInv, StopListener, At, Typed, Places, Closing, Goto
  <2>2. Begun' BY <1>3, NextSteps DEF IInv, StopListener, At, Begun, Goto
  <2>3. QuitOnce'
    BY <1>3, NextSteps DEF IInv, StopListener, At, QuitOnce, PastQuit, Closing,
       Goto
  <2>4. Done'
    BY <1>3, NextSteps DEF IInv, StopListener, At, Done, Stopped, Closing,
       Serving, Handling, Goto, natVars
  <2>5. Cancellation'
    BY <1>3, NextSteps DEF IInv, StopListener, At, Cancellation, PastCancel,
       Stopped, Goto, devVars
  <2>6. Quiet'
    BY <1>3, NextSteps DEF IInv, StopListener, At, Quiet, PastWait, Goto, devVars
  <2>7. (LoopsRunUntilCancelled /\ CleanExit /\ PanicAfterRun)'
    BY <1>3, Frames, Zenon DEF IInv, StopListener, natVars, mgmtVars, devVars
  <2> QED BY <2>1, <2>2, <2>3, <2>4, <2>5, <2>6, <2>7, Zenon DEF IInv
<1>4. CASE StopWait(t)
  <2>1. Typed'
    BY <1>4, NextSteps, Zenon DEF IInv, StopWait, At, Typed, Places, Closing, Goto,
       mgmtVars
  <2>2. Begun' BY <1>4, NextSteps DEF IInv, StopWait, At, Begun, Goto
  <2>3. QuitOnce'
    BY <1>4, NextSteps DEF IInv, StopWait, At, QuitOnce, PastQuit, Closing, Goto,
       mgmtVars
  <2>4. Done'
    <3>1. ~Serving /\ ~listening /\ (tracked => refused)
      BY <1>4, Zenon DEF IInv, Done, StopWait, At, PastQuit, Stopped, Closing
    <3>2. (~Serving /\ ~listening /\ (tracked => refused))'
      BY <1>4, <3>1, Zenon DEF StopWait, Serving, Handling, natVars, mgmtVars
    <3> QED BY <3>2, Zenon DEF Done
  <2>5. Cancellation'
    BY <1>4, NextSteps DEF IInv, StopWait, At, Cancellation, PastCancel, Stopped,
       Goto, devVars
  <2>6. Quiet'
    BY <1>4, NextSteps DEF IInv, StopWait, At, Quiet, PastWait, Goto, devVars
  <2>7. (LoopsRunUntilCancelled /\ CleanExit /\ PanicAfterRun)'
    BY <1>4, Frames, Zenon DEF IInv, StopWait, natVars, mgmtVars, devVars
  <2> QED BY <2>1, <2>2, <2>3, <2>4, <2>5, <2>6, <2>7 DEF IInv
<1>5. CASE Cancel(t)
  <2>1. Typed'
    BY <1>5, NextSteps, Zenon DEF IInv, Cancel, At, Typed, Places, Closing, Goto,
       mgmtVars
  <2>2. Begun' BY <1>5, NextSteps DEF IInv, Cancel, At, Begun, Goto
  <2>3. QuitOnce'
    BY <1>5, NextSteps DEF IInv, Cancel, At, QuitOnce, PastQuit, Closing, Goto,
       mgmtVars
  <2>4. Done'
    <3>1. ~Serving /\ ~listening /\ (tracked => refused)
      BY <1>5, Zenon DEF IInv, Done, Cancel, At, PastQuit, Stopped, Closing
    <3>2. (~Serving /\ ~listening /\ (tracked => refused))'
      BY <1>5, <3>1, Zenon DEF Cancel, Serving, Handling, natVars, mgmtVars
    <3> QED BY <3>2 DEF Done
  <2>5. Cancellation'
    BY <1>5, NextSteps, Zenon DEF IInv, Cancel, At, Cancellation, PastCancel, Stopped,
       Closing, Typed, Threads, Goto
  <2>6. Quiet'
    BY <1>5, NextSteps DEF IInv, Cancel, At, Quiet, PastWait, Goto, devVars
  <2>7. LoopsRunUntilCancelled' BY <1>5, Zenon DEF Cancel, LoopsRunUntilCancelled
  <2>8. (CleanExit /\ PanicAfterRun)'
    BY <1>5, Frames, Zenon DEF IInv, Cancel, natVars, mgmtVars, devVars
  <2> QED BY <2>1, <2>2, <2>3, <2>4, <2>5, <2>6, <2>7, <2>8, Zenon DEF IInv
<1>6. CASE CloseWSS(t)
  <2>1. Typed'
    BY <1>6, NextSteps DEF IInv, CloseWSS, At, Typed, Places, Closing, Goto,
       mgmtVars
  <2>2. Begun'
    BY <1>6, NextSteps, Zenon DEF IInv, CloseWSS, At, Begun, Typed, Threads, Goto
  <2>3. QuitOnce'
    BY <1>6, NextSteps DEF IInv, CloseWSS, At, QuitOnce, PastQuit, Closing, Typed,
       Threads, Goto, mgmtVars
  <2>4. Done'
    <3>1. ~Serving /\ ~listening /\ (tracked => refused)
      BY <1>6, Zenon DEF IInv, Done, CloseWSS, At, PastQuit, Stopped, Closing
    <3>2. (~Serving /\ ~listening /\ (tracked => refused))'
      BY <1>6, <3>1, Zenon DEF CloseWSS, Serving, Handling, natVars, mgmtVars
    <3> QED BY <3>2 DEF Done
  <2>5. Cancellation'
    BY <1>6, NextSteps DEF IInv, CloseWSS, At, Cancellation, PastCancel, Stopped,
       Closing, Typed, Threads, Goto
  <2>6. Quiet'
    BY <1>6, NextSteps DEF IInv, CloseWSS, At, Quiet, PastWait, Typed, Threads,
       Goto
  <2>7. LoopsRunUntilCancelled' BY <1>6, Zenon DEF IInv, CloseWSS,
                                   LoopsRunUntilCancelled
  <2>8. (CleanExit /\ PanicAfterRun)'
    BY <1>6, Frames, Zenon DEF IInv, CloseWSS, natVars, mgmtVars, devVars
  <2> QED BY <2>1, <2>2, <2>3, <2>4, <2>5, <2>6, <2>7, <2>8 DEF IInv
<1>7. CASE ExpireReads(t)
  <2>1. Typed'
    BY <1>7, NextSteps, Zenon DEF IInv, ExpireReads, At, Typed, Places, Closing, Goto,
       mgmtVars
  <2>2. Begun' BY <1>7, NextSteps DEF IInv, ExpireReads, At, Begun, Goto
  <2>3. QuitOnce'
    BY <1>7, NextSteps DEF IInv, ExpireReads, At, QuitOnce, PastQuit, Closing,
       Goto, mgmtVars
  <2>4. Done'
    <3>1. ~Serving /\ ~listening /\ (tracked => refused)
      BY <1>7, Zenon DEF IInv, Done, ExpireReads, At, PastQuit, Stopped, Closing
    <3>2. (~Serving /\ ~listening /\ (tracked => refused))'
      BY <1>7, <3>1, Zenon DEF ExpireReads, Serving, Handling, natVars, mgmtVars
    <3> QED BY <3>2 DEF Done
  <2>5. Cancellation'
    BY <1>7, NextSteps DEF IInv, ExpireReads, At, Cancellation, PastCancel,
       Stopped, Closing, Goto
  <2>6. Quiet' BY <1>7, NextSteps DEF IInv, ExpireReads, At, Quiet, PastWait, Goto
  <2>7. (LoopsRunUntilCancelled /\ CleanExit /\ PanicAfterRun)'
    BY <1>7, Frames, Zenon DEF IInv, ExpireReads, natVars, mgmtVars, devVars
  <2> QED BY <2>1, <2>2, <2>3, <2>4, <2>5, <2>6, <2>7 DEF IInv
<1>8. CASE Wait(t)
  <2>1. Typed'
    BY <1>8, NextSteps DEF IInv, Wait, At, Typed, Places, Closing, Goto, mgmtVars
  <2>2. Begun' BY <1>8, NextSteps DEF IInv, Wait, At, Begun, Typed, Threads, Goto
  <2>3. QuitOnce'
    BY <1>8, NextSteps DEF IInv, Wait, At, QuitOnce, PastQuit, Closing, Typed,
       Threads, Goto, mgmtVars
  <2>4. Done'
    <3>1. ~Serving /\ ~listening /\ (tracked => refused)
      BY <1>8, Zenon DEF IInv, Done, Wait, At, PastQuit, Stopped, Closing
    <3>2. (~Serving /\ ~listening /\ (tracked => refused))'
      BY <1>8, <3>1, Zenon DEF Wait, Serving, Handling, natVars, mgmtVars
    <3> QED BY <3>2 DEF Done
  <2>5. Cancellation'
    BY <1>8, NextSteps DEF IInv, Wait, At, Cancellation, PastCancel, Stopped,
       Closing, Typed, Threads, Goto
  <2>6. Quiet'
    BY <1>8 DEF IInv, Wait, At, Quiet, PastWait, Loops, Active, Typed, Threads,
       Goto, devVars
  <2>7. (LoopsRunUntilCancelled /\ CleanExit /\ PanicAfterRun)'
    BY <1>8, Frames, Zenon DEF IInv, Wait, natVars, mgmtVars, devVars
  <2> QED BY <2>1, <2>2, <2>3, <2>4, <2>5, <2>6, <2>7 DEF IInv
<1>9. CASE Wake(t)
  <2>1. Typed'
    BY <1>9, NextSteps DEF IInv, Wake, Typed, Places, Closing, Goto, mgmtVars
  <2>2. Begun' BY <1>9, NextSteps, Zenon DEF IInv, Wake, Begun, Typed, Threads, Goto
  <2>3. QuitOnce'
    BY <1>9, NextSteps DEF IInv, Wake, QuitOnce, PastQuit, Closing, Typed,
       Threads, Goto, mgmtVars
  <2>4. Done'
    <3>1. ~Serving /\ ~listening /\ (tracked => refused)
      BY <1>9, Zenon DEF IInv, Done, Wake, PastQuit, Stopped, Closing
    <3>2. (~Serving /\ ~listening /\ (tracked => refused))'
      BY <1>9, <3>1, Zenon DEF Wake, Serving, Handling, natVars, mgmtVars
    <3> QED BY <3>2 DEF Done
  <2>5. Cancellation'
    BY <1>9, NextSteps DEF IInv, Wake, Cancellation, PastCancel, Stopped, Closing,
       Typed, Threads, Goto
  <2>6. Quiet'
    BY <1>9, Zenon DEF IInv, Wake, Quiet, PastWait, Loops, Active, Typed, Threads, Goto,
       devVars
  <2>7. CleanExit' BY <1>9, Zenon DEF Wake, Die, CleanExit
  <2>8. PanicAfterRun' BY <1>9, Zenon DEF Wake, PanicAfterRun, Active
  <2>9. LoopsRunUntilCancelled'
    BY <1>9, Frames, Zenon DEF IInv, Wake, natVars, mgmtVars, devVars
  <2> QED BY <2>1, <2>2, <2>3, <2>4, <2>5, <2>6, <2>7, <2>8, <2>9 DEF IInv
<1>10. CASE CloseTAP(t)
  <2>1. Typed'
    BY <1>10, NextSteps, Zenon DEF IInv, CloseTAP, At, Typed, Places, Closing, Goto,
       mgmtVars
  <2>2. Begun' BY <1>10, NextSteps DEF IInv, CloseTAP, At, Begun, Goto
  <2>3. QuitOnce'
    BY <1>10, NextSteps DEF IInv, CloseTAP, At, QuitOnce, PastQuit, Closing, Goto,
       mgmtVars
  <2>4. Done'
    <3>1. ~Serving /\ ~listening /\ (tracked => refused)
      BY <1>10, Zenon DEF IInv, Done, CloseTAP, At, PastQuit, Stopped, Closing
    <3>2. (~Serving /\ ~listening /\ (tracked => refused))'
      BY <1>10, <3>1, Zenon DEF CloseTAP, Serving, Handling, natVars, mgmtVars
    <3> QED BY <3>2 DEF Done
  <2>5. Cancellation'
    BY <1>10, NextSteps DEF IInv, CloseTAP, At, Cancellation, PastCancel, Stopped,
       Closing, Goto
  <2>6. Quiet'
    BY <1>10, NextSteps DEF IInv, CloseTAP, At, Quiet, PastWait, Threads, Goto
  <2>7. (LoopsRunUntilCancelled /\ CleanExit /\ PanicAfterRun)'
    BY <1>10, Frames, Zenon DEF IInv, CloseTAP, natVars, mgmtVars, devVars
  <2> QED BY <2>1, <2>2, <2>3, <2>4, <2>5, <2>6, <2>7 DEF IInv
<1>11. CASE CloseConn(t)
  <2>1. Typed'
    BY <1>11, NextSteps, Zenon DEF IInv, CloseConn, At, Typed, Places, Closing, Goto,
       mgmtVars
  <2>2. Begun' BY <1>11, NextSteps DEF IInv, CloseConn, At, Begun, Goto
  <2>3. QuitOnce'
    BY <1>11, NextSteps DEF IInv, CloseConn, At, QuitOnce, PastQuit, Closing,
       Goto, mgmtVars
  <2>4. Done'
    <3>1. ~Serving /\ ~listening /\ (tracked => refused)
      BY <1>11, Zenon DEF IInv, Done, CloseConn, At, PastQuit, Stopped, Closing
    <3>2. (~Serving /\ ~listening /\ (tracked => refused))'
      BY <1>11, <3>1, Zenon DEF CloseConn, Serving, Handling, natVars, mgmtVars
    <3> QED BY <3>2 DEF Done
  <2>5. Cancellation'
    BY <1>11, NextSteps DEF IInv, CloseConn, At, Cancellation, PastCancel,
       Stopped, Closing, Goto
  <2>6. Quiet' BY <1>11, NextSteps DEF IInv, CloseConn, At, Quiet, PastWait, Goto
  <2>7. (LoopsRunUntilCancelled /\ CleanExit /\ PanicAfterRun)'
    BY <1>11, Frames, Zenon DEF IInv, CloseConn, natVars, mgmtVars, devVars
  <2> QED BY <2>1, <2>2, <2>3, <2>4, <2>5, <2>6, <2>7 DEF IInv
<1>12. CASE Exit(t)
  <2>1. CleanExit'
    BY <1>12, Zenon DEF IInv, Exit, CleanExit, Done, Closing, PastQuit, natVars,
       mgmtVars
  <2>2. PanicAfterRun' BY <1>12, Zenon DEF Exit, Die, PanicAfterRun
  <2>3. (Typed /\ Begun /\ QuitOnce /\ Done /\ Cancellation /\ Quiet /\
          LoopsRunUntilCancelled)'
    BY <1>12, Frames, Zenon DEF IInv, Exit, natVars, mgmtVars, devVars
  <2> QED BY <2>1, <2>2, <2>3, Zenon DEF IInv
<1> QED BY <1>1, <1>2, <1>3, <1>4, <1>5, <1>6, <1>7, <1>8, <1>9, <1>10, <1>11,
  <1>12, Zenon

\* The accept loop keeps the invariant when it looks at quit or Accept fails.
LEMMA AcceptKeeps ==
    ASSUME IInv, dead = "no",
           AcceptHead \/ AcceptError
    PROVE  IInv'
<1>1. CASE AcceptHead
  <2>1. Done' BY <1>1, Zenon DEF IInv, AcceptHead, Done, Serving, natVars
  <2>2. (Typed /\ Begun /\ QuitOnce /\ Cancellation /\ Quiet /\
          LoopsRunUntilCancelled /\ CleanExit /\ PanicAfterRun)'
    BY <1>1, Frames, Zenon DEF IInv, AcceptHead, natVars, mgmtVars, devVars
  <2> QED BY <2>1, <2>2, Zenon DEF IInv
<1>2. CASE AcceptError
  <2>1. Done' BY <1>2, Zenon DEF IInv, AcceptError, Done, Serving, natVars
  <2>2. (Typed /\ Begun /\ QuitOnce /\ Cancellation /\ Quiet /\
          LoopsRunUntilCancelled /\ CleanExit /\ PanicAfterRun)'
    BY <1>2, Frames, Zenon DEF IInv, AcceptError, natVars, mgmtVars, devVars
  <2> QED BY <2>1, <2>2 DEF IInv
<1> QED BY <1>1, <1>2, Zenon

\* Clients, Accept and the handlers of connections keep the invariant.
LEMMA ConnKeeps ==
    ASSUME NEW c \in Conns, IInv, dead = "no",
           Accept(c) \/ Connect(c) \/ HandlerStart(c) \/ Authenticated(c) \/
               AuthFailed(c) \/ RefusedEnd(c) \/ Command(c) \/ CommandsEnd(c)
    PROVE  IInv'
<1>1. CASE Accept(c)
  <2>1. Typed' BY <1>1, Zenon DEF IInv, Accept, Typed
  <2>2. Done' BY <1>1, Zenon DEF IInv, Accept, Done, Serving, natVars
  <2>3. (Begun /\ QuitOnce /\ Cancellation /\ Quiet /\ LoopsRunUntilCancelled
          /\ CleanExit /\ PanicAfterRun)'
    BY <1>1, Frames, Zenon DEF IInv, Accept, natVars, mgmtVars, devVars
  <2> QED BY <2>1, <2>2, <2>3, Zenon DEF IInv
<1>2. CASE Connect(c)
  <2>1. Typed' BY <1>2, Zenon DEF IInv, Connect, Typed
  <2>2. Done' BY <1>2, Zenon DEF IInv, Connect, Done, PastQuit, Stopped, natVars
  <2>3. (Begun /\ QuitOnce /\ Cancellation /\ Quiet /\ LoopsRunUntilCancelled
          /\ CleanExit /\ PanicAfterRun)'
    BY <1>2, Frames, Zenon DEF IInv, Connect, natVars, mgmtVars, devVars
  <2> QED BY <2>1, <2>2, <2>3 DEF IInv
<1>3. CASE HandlerStart(c)
  <2>1. Typed' BY <1>3, Zenon DEF IInv, HandlerStart, Handler, Typed
  <2>2. Done'
    BY <1>3, Zenon DEF IInv, HandlerStart, Handler, Done, Serving, Handling, natVars
  <2>3. (Begun /\ QuitOnce /\ Cancellation /\ Quiet /\ LoopsRunUntilCancelled
          /\ CleanExit /\ PanicAfterRun)'
    BY <1>3, Frames, Zenon DEF IInv, HandlerStart, Handler, natVars, mgmtVars, devVars
  <2> QED BY <2>1, <2>2, <2>3 DEF IInv
<1>4. CASE Authenticated(c)
  <2>1. Typed' BY <1>4, Zenon DEF IInv, Authenticated, Handler, Typed
  <2>2. Done'
    BY <1>4, Zenon DEF IInv, Authenticated, Handler, Done, Serving, Handling, natVars
  <2>3. (Begun /\ QuitOnce /\ Cancellation /\ Quiet /\ LoopsRunUntilCancelled
          /\ CleanExit /\ PanicAfterRun)'
    BY <1>4, Frames, Zenon DEF IInv, Authenticated, Handler, natVars, mgmtVars, devVars
  <2> QED BY <2>1, <2>2, <2>3 DEF IInv
<1>5. CASE AuthFailed(c)
  <2>1. Typed' BY <1>5, Zenon DEF IInv, AuthFailed, Handler, Typed
  <2>2. Done'
    BY <1>5, Zenon DEF IInv, AuthFailed, Handler, Done, Serving, Handling, natVars
  <2>3. (Begun /\ QuitOnce /\ Cancellation /\ Quiet /\ LoopsRunUntilCancelled
          /\ CleanExit /\ PanicAfterRun)'
    BY <1>5, Frames, Zenon DEF IInv, AuthFailed, Handler, natVars, mgmtVars, devVars
  <2> QED BY <2>1, <2>2, <2>3 DEF IInv
<1>6. CASE RefusedEnd(c)
  <2>1. Typed' BY <1>6, Zenon DEF IInv, RefusedEnd, Handler, Typed
  <2>2. Done'
    BY <1>6, Zenon DEF IInv, RefusedEnd, Handler, Done, Serving, Handling, natVars
  <2>3. (Begun /\ QuitOnce /\ Cancellation /\ Quiet /\ LoopsRunUntilCancelled
          /\ CleanExit /\ PanicAfterRun)'
    BY <1>6, Frames, Zenon DEF IInv, RefusedEnd, Handler, natVars, mgmtVars, devVars
  <2> QED BY <2>1, <2>2, <2>3 DEF IInv
<1>7. CASE Command(c)
  <2>1. Typed' BY <1>7, Zenon DEF IInv, Command, Handler, Typed
  <2>2. Done' BY <1>7, Zenon DEF IInv, Command, Handler, Done, Serving, Handling,
                 natVars
  <2>3. (Begun /\ QuitOnce /\ Cancellation /\ Quiet /\ LoopsRunUntilCancelled
          /\ CleanExit /\ PanicAfterRun)'
    BY <1>7, Frames, Zenon DEF IInv, Command, Handler, natVars, mgmtVars, devVars
  <2> QED BY <2>1, <2>2, <2>3 DEF IInv
<1>8. CASE CommandsEnd(c)
  <2>1. Typed' BY <1>8, Zenon DEF IInv, CommandsEnd, Handler, Typed
  <2>2. Done'
    BY <1>8 DEF IInv, CommandsEnd, Handler, Done, Serving, Handling, natVars
  <2>3. (Begun /\ QuitOnce /\ Cancellation /\ Quiet /\ LoopsRunUntilCancelled
          /\ CleanExit /\ PanicAfterRun)'
    BY <1>8, Frames, Zenon DEF IInv, CommandsEnd, Handler, natVars, mgmtVars, devVars
  <2> QED BY <2>1, <2>2, <2>3 DEF IInv
<1> QED BY <1>1, <1>2, <1>3, <1>4, <1>5, <1>6, <1>7, <1>8, Zenon

\* Starting a loop, its look at the context and a ticker keep the invariant.
LEMMA LoopKeeps ==
    ASSUME NEW g \in Loops, IInv, dead = "no",
           LoopBegins(g) \/ LoopHead(g) \/ Tick(g)
    PROVE  IInv'
<1>1. CASE LoopBegins(g)
  <2>1. Typed' BY <1>1, Zenon DEF IInv, LoopBegins, LoopTo, Typed, mgmtVars
  <2>2. Begun' BY <1>1 DEF IInv, LoopBegins, LoopTo, Begun
  <2>3. Quiet' BY <1>1 DEF IInv, LoopBegins, LoopTo, Quiet, devVars
  <2>4. LoopsRunUntilCancelled'
    BY <1>1 DEF IInv, LoopBegins, LoopTo, LoopsRunUntilCancelled, devVars
  <2>5. (QuitOnce /\ Done /\ Cancellation /\ CleanExit /\ PanicAfterRun)'
    BY <1>1, Frames, Zenon DEF IInv, LoopBegins, natVars, mgmtVars, devVars
  <2> QED BY <2>1, <2>2, <2>3, <2>4, <2>5, Zenon DEF IInv
<1>2. CASE LoopHead(g)
  <2>1. Typed'
    BY <1>2 DEF IInv, LoopHead, LoopTo, LoopResult, Typed, Places, Closing,
       mgmtVars
  <2>2. Begun'
    BY <1>2 DEF IInv, LoopHead, LoopTo, LoopResult, Begun, Loops, Typed, Threads
  <2>3. QuitOnce'
    BY <1>2 DEF IInv, LoopHead, LoopResult, QuitOnce, PastQuit, Closing, Threads,
       mgmtVars
  <2>4. Done'
    BY <1>2 DEF IInv, LoopHead, LoopResult, Done, PastQuit, Stopped, Closing,
       Serving, Handling, natVars, mgmtVars
  <2>5. Cancellation'
    BY <1>2 DEF IInv, LoopHead, LoopResult, Cancellation, PastCancel, Stopped,
       Closing, Threads, devVars
  <2>6. Quiet'
    BY <1>2, EdgeLifecycleAssumption DEF IInv, LoopHead, LoopTo, LoopResult,
       Quiet, PastWait, Loops, Typed, Cancellation, PastCancel, Stopped, Closing,
       Threads, devVars
  <2>7. LoopsRunUntilCancelled'
    BY <1>2, Zenon DEF IInv, LoopHead, LoopTo, LoopResult, LoopsRunUntilCancelled,
       Typed, devVars
  <2>8. (CleanExit /\ PanicAfterRun)'
    BY <1>2, Frames, Zenon DEF IInv, LoopHead, natVars, mgmtVars, devVars
  <2> QED BY <2>1, <2>2, <2>3, <2>4, <2>5, <2>6, <2>7, <2>8, Zenon DEF IInv
<1>3. CASE Tick(g)
  <2>1. Typed' BY <1>3, Zenon DEF IInv, Tick, LoopTo, Typed, mgmtVars
  <2>2. Begun' BY <1>3 DEF IInv, Tick, LoopTo, Begun
  <2>3. Quiet' BY <1>3 DEF IInv, Tick, LoopTo, Quiet, devVars
  <2>4. LoopsRunUntilCancelled'
    BY <1>3 DEF IInv, Tick, LoopTo, LoopsRunUntilCancelled, devVars
  <2>5. (QuitOnce /\ Done /\ Cancellation /\ CleanExit /\ PanicAfterRun)'
    BY <1>3, Frames, Zenon DEF IInv, Tick, natVars, mgmtVars, devVars
  <2> QED BY <2>1, <2>2, <2>3, <2>4, <2>5 DEF IInv
<1> QED BY <1>1, <1>2, <1>3, Zenon

\* The bodies of handleTAP, handleUDP and handleWSS keep the invariant.
LEMMA DeviceLoopKeeps ==
    ASSUME IInv, dead = "no",
           TapRead \/ RxPacket \/ RxUDPError \/ RxDisconnect \/ RxClosed \/
               RxReconnect
    PROVE  IInv'
<1>1. CASE TapRead
  <2>1. Typed'
    BY <1>1 DEF IInv, TapRead, LoopTo, LoopResult, Typed, Places, Closing, Loops,
       mgmtVars
  <2>2. Begun' BY <1>1 DEF IInv, TapRead, LoopTo, LoopResult, Begun, Threads
  <2>3. QuitOnce'
    BY <1>1 DEF IInv, TapRead, LoopResult, QuitOnce, PastQuit, Closing, Threads,
       mgmtVars
  <2>4. Done'
    BY <1>1 DEF IInv, TapRead, LoopResult, Done, PastQuit, Stopped, Closing,
       Serving, Handling, natVars, mgmtVars
  <2>5. Cancellation'
    BY <1>1 DEF IInv, TapRead, LoopResult, Cancellation, PastCancel, Stopped,
       Closing, Threads, devVars
  <2>6. Quiet'
    BY <1>1, Zenon DEF IInv, TapRead, LoopResult, Quiet, PastWait, Threads, devVars
  <2>7. LoopsRunUntilCancelled'
    BY <1>1 DEF IInv, TapRead, LoopTo, LoopResult, LoopsRunUntilCancelled,
       Cancellation, Quiet, Threads, devVars
  <2>8. (CleanExit /\ PanicAfterRun)'
    BY <1>1, Frames, Zenon DEF IInv, TapRead, natVars, mgmtVars, devVars
  <2> QED BY <2>1, <2>2, <2>3, <2>4, <2>5, <2>6, <2>7, <2>8, Zenon DEF IInv
<1>2. CASE RxPacket
  <2>1. Typed'
    BY <1>2 DEF IInv, RxPacket, LoopTo, LoopResult, Typed, Places, Closing, Loops,
       mgmtVars
  <2>2. Begun' BY <1>2, Zenon DEF IInv, RxPacket, LoopResult, Begun, Threads
  <2>3. QuitOnce'
    BY <1>2 DEF IInv, RxPacket, LoopResult, QuitOnce, PastQuit, Closing, Threads,
       mgmtVars
  <2>4. Done'
    BY <1>2 DEF IInv, RxPacket, LoopResult, Done, PastQuit, Stopped, Closing,
       Serving, Handling, natVars, mgmtVars
  <2>5. Cancellation'
    BY <1>2 DEF IInv, RxPacket, LoopResult, Cancellation, PastCancel, Stopped,
       Closing, Threads, devVars
  <2>6. Quiet' BY <1>2, Zenon DEF IInv, RxPacket, LoopResult, Quiet, Threads, devVars
  <2>7. LoopsRunUntilCancelled'
    BY <1>2 DEF IInv, RxPacket, LoopTo, LoopResult, LoopsRunUntilCancelled, Quiet,
       Threads
  <2>8. (CleanExit /\ PanicAfterRun)'
    BY <1>2, Frames, Zenon DEF IInv, RxPacket, natVars, mgmtVars, devVars
  <2> QED BY <2>1, <2>2, <2>3, <2>4, <2>5, <2>6, <2>7, <2>8 DEF IInv
<1>3. CASE RxUDPError
  <2>1. Typed'
    BY <1>3, Zenon DEF IInv, RxUDPError, LoopTo, LoopResult, Typed, Places, Closing,
       Loops, mgmtVars
  <2>2. Begun' BY <1>3, Zenon DEF IInv, RxUDPError, LoopResult, Begun, Threads
  <2>3. QuitOnce'
    BY <1>3 DEF IInv, RxUDPError, LoopResult, QuitOnce, PastQuit, Closing,
       Threads, mgmtVars
  <2>4. Done'
    BY <1>3 DEF IInv, RxUDPError, LoopResult, Done, PastQuit, Stopped, Closing,
       Serving, Handling, natVars, mgmtVars
  <2>5. Cancellation'
    BY <1>3 DEF IInv, RxUDPError, LoopResult, Cancellation, PastCancel, Stopped,
       Closing, Threads, devVars
  <2>6. Quiet'
    BY <1>3, Zenon DEF IInv, RxUDPError, LoopResult, Quiet, PastWait, Threads, devVars
  <2>7. LoopsRunUntilCancelled'
    BY <1>3 DEF IInv, RxUDPError, LoopTo, LoopResult, LoopsRunUntilCancelled,
       Cancellation
  <2>8. (CleanExit /\ PanicAfterRun)'
    BY <1>3, Frames, Zenon DEF IInv, RxUDPError, natVars, mgmtVars, devVars
  <2> QED BY <2>1, <2>2, <2>3, <2>4, <2>5, <2>6, <2>7, <2>8 DEF IInv
<1>4. CASE RxDisconnect
  <2>1. Typed' BY <1>4, Zenon DEF IInv, RxDisconnect, LoopTo, Typed, Loops, mgmtVars
  <2>2. Begun' BY <1>4, Zenon DEF IInv, RxDisconnect, Begun
  <2>3. Cancellation' BY <1>4, Zenon DEF IInv, RxDisconnect, Cancellation
  <2>4. Quiet' BY <1>4, Zenon DEF IInv, RxDisconnect, Quiet
  <2>5. LoopsRunUntilCancelled'
    BY <1>4 DEF IInv, RxDisconnect, LoopTo, LoopsRunUntilCancelled
  <2>6. (QuitOnce /\ Done /\ CleanExit /\ PanicAfterRun)'
    BY <1>4, Frames, Zenon DEF IInv, RxDisconnect, natVars, mgmtVars, devVars
  <2> QED BY <2>1, <2>2, <2>3, <2>4, <2>5, <2>6, Zenon DEF IInv
<1>5. CASE RxClosed
  <2>1. Typed'
    BY <1>5, Zenon DEF IInv, RxClosed, LoopTo, LoopResult, Typed, Places, Closing,
       Loops, mgmtVars
  <2>2. Begun' BY <1>5, Zenon DEF IInv, RxClosed, LoopResult, Begun, Threads
  <2>3. QuitOnce'
    BY <1>5 DEF IInv, RxClosed, LoopResult, QuitOnce, PastQuit, Closing, Threads,
       mgmtVars
  <2>4. Done'
    BY <1>5 DEF IInv, RxClosed, LoopResult, Done, PastQuit, Stopped, Closing,
       Serving, Handling, natVars, mgmtVars
  <2>5. Cancellation'
    BY <1>5, Zenon DEF IInv, RxClosed, LoopResult, Cancellation, PastCancel, Stopped,
       Closing, Threads
  <2>6. Quiet'
    BY <1>5, Zenon DEF IInv, RxClosed, LoopResult, Quiet, PastWait, Threads, devVars
  <2>7. LoopsRunUntilCancelled'
    BY <1>5, Zenon DEF IInv, RxClosed, LoopsRunUntilCancelled, Cancellation
  <2>8. (CleanExit /\ PanicAfterRun)'
    BY <1>5, Frames, Zenon DEF IInv, RxClosed, natVars, mgmtVars, devVars
  <2> QED BY <2>1, <2>2, <2>3, <2>4, <2>5, <2>6, <2>7, <2>8 DEF IInv
<1>6. CASE RxReconnect
  <2>1. Typed'
    BY <1>6 DEF IInv, RxReconnect, LoopTo, LoopResult, Typed, Places, Closing,
       mgmtVars
  <2>2. Begun' BY <1>6, Zenon DEF IInv, RxReconnect, LoopResult, Begun, Threads
  <2>3. QuitOnce'
    BY <1>6 DEF IInv, RxReconnect, LoopResult, QuitOnce, PastQuit, Closing,
       Threads, mgmtVars
  <2>4. Done'
    BY <1>6 DEF IInv, RxReconnect, LoopResult, Done, PastQuit, Stopped, Closing,
       Serving, Handling, natVars, mgmtVars
  <2>5. Cancellation'
    BY <1>6 DEF IInv, RxReconnect, LoopResult, Cancellation, PastCancel, Stopped,
       Closing, Threads
  <2>6. Quiet' BY <1>6, Zenon DEF IInv, RxReconnect, LoopResult, Quiet, PastWait,
                  Threads
  <2>7. LoopsRunUntilCancelled'
    BY <1>6, Zenon DEF IInv, RxReconnect, LoopTo, LoopResult, LoopsRunUntilCancelled,
       Typed
  <2>8. (CleanExit /\ PanicAfterRun)'
    BY <1>6, Frames, Zenon DEF IInv, RxReconnect, natVars, mgmtVars, devVars
  <2> QED BY <2>1, <2>2, <2>3, <2>4, <2>5, <2>6, <2>7, <2>8 DEF IInv
<1> QED BY <1>1, <1>2, <1>3, <1>4, <1>5, <1>6, Zenon

\* Signals, the end of a NAT-PMP lease and a failure of the API keep the invariant.
LEMMA EnvironmentKeeps ==
    ASSUME IInv, dead = "no",
           Signal \/ SignalReceived \/ ApiFails \/ LeaseEnds
    PROVE  IInv'
<1>1. CASE Signal
  <2>1. CleanExit' BY <1>1, Zenon DEF Signal, Die, CleanExit
  <2>2. PanicAfterRun' BY <1>1, Zenon DEF Signal, Die, PanicAfterRun
  <2>3. (Typed /\ Begun /\ QuitOnce /\ Done /\ Cancellation /\ Quiet /\
          LoopsRunUntilCancelled)'
    BY <1>1, Frames, Zenon DEF IInv, Signal, natVars, mgmtVars, devVars
  <2> QED BY <2>1, <2>2, <2>3, Zenon DEF IInv
<1>2. CASE SignalReceived
  <2>1. Typed'
    BY <1>2, Zenon DEF IInv, SignalReceived, Typed, Places, Closing, Threads, Goto,
       mgmtVars
  <2>2. Begun' BY <1>2 DEF IInv, SignalReceived, Begun, Goto
  <2>3. QuitOnce'
    BY <1>2 DEF IInv, SignalReceived, QuitOnce, PastQuit, Closing, Goto, mgmtVars
  <2>4. Done'
    BY <1>2 DEF IInv, SignalReceived, Done, PastQuit, Stopped, Serving, Handling,
       Goto, natVars, mgmtVars
  <2>5. Cancellation'
    BY <1>2 DEF IInv, SignalReceived, Cancellation, PastCancel, Stopped, Closing,
       Goto, devVars
  <2>6. Quiet' BY <1>2 DEF IInv, SignalReceived, Quiet, PastWait, Goto, devVars
  <2>7. (LoopsRunUntilCancelled /\ CleanExit /\ PanicAfterRun)'
    BY <1>2, Frames, Zenon DEF IInv, SignalReceived, natVars, mgmtVars, devVars
  <2> QED BY <2>1, <2>2, <2>3, <2>4, <2>5, <2>6, <2>7, Zenon DEF IInv
<1>3. CASE ApiFails
  <2>1. CleanExit' BY <1>3, Zenon DEF ApiFails, Die, CleanExit
  <2>2. PanicAfterRun' BY <1>3, Zenon DEF ApiFails, Die, PanicAfterRun
  <2>3. (Typed /\ Begun /\ QuitOnce /\ Done /\ Cancellation /\ Quiet /\
          LoopsRunUntilCancelled)'
    BY <1>3, Frames, Zenon DEF IInv, ApiFails, natVars, mgmtVars, devVars
  <2> QED BY <2>1, <2>2, <2>3 DEF IInv
<1>4. CASE LeaseEnds
  <2>1. (Typed /\ Begun /\ QuitOnce /\ Done /\ Cancellation /\ Quiet /\
          LoopsRunUntilCancelled /\ CleanExit /\ PanicAfterRun)'
    BY <1>4, Frames, Zenon DEF IInv, LeaseEnds, natVars, mgmtVars, devVars
  <2> QED BY <2>1, Zenon DEF IInv
<1> QED BY <1>1, <1>2, <1>3, <1>4, Zenon

\* Every step keeps the invariant.
LEMMA NextInv == IInv /\ [Next]_vars => IInv'
<1> SUFFICES ASSUME IInv, [Next]_vars PROVE IInv' BY Zenon
<1>1. CASE UNCHANGED vars
  <2>1. (Typed /\ Begun /\ QuitOnce /\ Cancellation /\ Quiet)'
    BY <1>1, Zenon DEF IInv, Typed, Begun, QuitOnce, Cancellation, Quiet, vars,
       mgmtVars, devVars
  <2>2. (Done /\ LoopsRunUntilCancelled /\ CleanExit /\ PanicAfterRun)'
    BY <1>1, Zenon DEF IInv, Done, Serving, Handling, LoopsRunUntilCancelled, CleanExit,
       PanicAfterRun, Active, vars, natVars, mgmtVars, devVars
  <2> QED BY <2>1, <2>2, Zenon DEF IInv
<1>2. CASE Next
  <2>1. dead = "no" BY <1>2, Zenon DEF Next
  <2>2. CASE \E t \in Threads : ThreadStep(t)
    <3>1. PICK t \in Threads : ThreadStep(t) BY <2>2, Zenon
    <3>2. CASE Up BY <2>1, <3>2, UpKeeps, Zenon DEF Up
    <3>3. CASE SignalReceived BY <2>1, <3>3, EnvironmentKeeps, Zenon
    <3>4. CASE Close(t) BY <2>1, <3>4, CloseKeeps, Zenon DEF Close
    <3> QED BY <3>1, <3>2, <3>3, <3>4, Zenon DEF ThreadStep
  <2>3. CASE AcceptLoop
    <3>1. CASE AcceptHead \/ AcceptError BY <2>1, <3>1, AcceptKeeps, Zenon
    <3>2. CASE \E c \in Conns : Accept(c) BY <2>1, <3>2, ConnKeeps, Zenon
    <3> QED BY <2>3, <3>1, <3>2, Zenon DEF AcceptLoop
  <2>4. CASE \E c \in Conns : HandleConnection(c)
    BY <2>1, <2>4, ConnKeeps, Zenon DEF HandleConnection
  <2>5. CASE \E g \in Loops : LoopStep(g)
    BY <2>1, <2>5, LoopKeeps, DeviceLoopKeeps, Zenon DEF LoopStep
  <2>6. CASE Environment
    <3>1. CASE Signal \/ ApiFails \/ LeaseEnds BY <2>1, <3>1, EnvironmentKeeps, Zenon
    <3>2. CASE TapRead \/ RxPacket \/ RxDisconnect BY <2>1, <3>2, DeviceLoopKeeps, Zenon
    <3>3. CASE \E c \in Conns : Client(c) BY <2>1, <3>3, ConnKeeps, Zenon DEF Client
    <3> QED BY <2>6, <3>1, <3>2, <3>3, Zenon DEF Environment
  <2> QED BY <1>2, <2>2, <2>3, <2>4, <2>5, <2>6, Zenon DEF Next, Process
<1> QED BY <1>1, <1>2, Zenon

\* The invariant holds of every edge process.
LEMMA Invariance == Spec => []IInv
<1> QED BY InitInv, NextInv, PTL DEF Spec

-----------------------------------------------------------------------------
(* The properties, for any number of loops and connections. *)

\* When Mgmt.Stop has returned, in Close of either thread, the socket is closed,
\* no connection is being handled and none will be.
THEOREM StopCompletes == Spec => []StopIsComplete
<1>1. IInv => StopIsComplete
  BY Zenon DEF IInv, Done, StopIsComplete, PastQuit, Stopped
<1> QED BY <1>1, Invariance, PTL

\* handleTAP and the receiving loop do not use the TAP device once Close has
\* closed it, although a loop joins the WaitGroup only when it begins.
THEOREM DeviceIdleWhenClosed == Spec => []NoUseAfterClose
<1>1. IInv => NoUseAfterClose
  BY Zenon DEF IInv, Quiet, NoUseAfterClose, Threads
<1> QED BY <1>1, Invariance, PTL

\* No loop of Run ends before the context is cancelled, but for the receiving
\* loop of a ws edge whose connection broke.
THEOREM LoopsOutlastTransports == Spec => []LoopsRunUntilCancelled
<1>1. IInv => LoopsRunUntilCancelled BY Zenon DEF IInv
<1> QED BY <1>1, Invariance, PTL

\* When main or Close calls os.Exit, the management socket is gone and the port
\* mapping is removed or its removal was not confirmed.
THEOREM CleansUpBeforeExit == Spec => []CleanExit
<1>1. IInv => CleanExit BY Zenon DEF IInv
<1> QED BY <1>1, Invariance, PTL

\* Once Run has started its loops the only panic of Close is that of the
\* WaitGroup which a loop joins while Wait returns.
THEOREM OnlyWaitPanics == Spec => []PanicAfterRun
<1>1. IInv => PanicAfterRun BY Zenon DEF IInv
<1> QED BY <1>1, Invariance, PTL

=============================================================================
