--------------------------- MODULE TapDeviceProofs ---------------------------
(***************************************************************************)
(* The invariants of the TAP device, for any number of goroutines, events, *)
(* addresses and calls: an event serves one call or lies in the pool; what *)
(* Close leaves open is bounded by the calls it overtook; the addresses on *)
(* the adapter are tracked; and the MAC address is the adapter's.          *)
(*                                                                         *)
(* The proof is about four parts of the state that share few variables:    *)
(* Stages (how far Create and Close have come), Owned and Timely (the      *)
(* events), Bounded (what is open after Close) and Tracked (addresses).    *)
(***************************************************************************)
EXTENDS TapDevice, FiniteSetTheorems, FunctionTheorems, TLAPS

Calls == [at : {"idle", "tested", "event", "issue", "wait", "put"},
          event : Events \cup {None},
          io : {"none", "pending", "cancelled", "done"}, deadline : BOOLEAN]

\* A call has an event from getEvent to putEvent, and a request while it waits.
CallOK(c) ==
    /\ c.at = "idle" <=> c = Idle
    /\ c.event # None <=> c.at \in {"issue", "wait", "put"}
    /\ c.io # "none" <=> c.at = "wait"

Typed ==
    /\ call \in [Callers -> Calls] /\ \A p \in Callers : CallOK(call[p])
    /\ pool \in Seq(Events) /\ live \subseteq Events /\ signalled \subseteq live
    /\ inFlight \subseteq Callers
    /\ adapter \in [mac : {"old", "new"}, enabled : BOOLEAN, restarted : BOOLEAN]
    /\ config \in [at : {"idle", "delete", "set"}, ip : IPs \cup {None}]
    /\ config.at = "idle" <=> config = NoConfig
    /\ config.at # "idle" => config.ip \in IPs
    /\ addresses \subseteq IPs

\* The file is open between CreateFile and CloseHandle only; Close begins after
\* Create ended; and a MAC address that was looked up after the restart of the
\* adapter is the requested one.
Stages ==
    /\ closing # "no" => setup = "ready"
    /\ setup \notin {"media", "mac", "ready"} => h # "open"
    /\ closing \in {"events", "dev", "iface", "closed"} => h = "closed"
    /\ setup \in {"find", "disable", "enable"} => ~adapter.restarted
    /\ setup \in {"open", "media", "mac", "ready"} /\ adapter.restarted /\ ~unsure
         => macAddr = "new" /\ adapter.mac = "new"

\* Every event that exists serves one call, or lies in the pool once.
Owned ==
    /\ \A p \in Callers : InUse(p) =>
         /\ call[p].event \in live
         /\ \A q \in Callers \ {p} : call[q].event # call[p].event
         /\ \A i \in DOMAIN pool : pool[i] # call[p].event
    /\ \A i, j \in DOMAIN pool : pool[i] = pool[j] => i = j
    /\ \A i \in DOMAIN pool : pool[i] \in live
    /\ \A e \in live : \/ \E i \in DOMAIN pool : pool[i] = e
                       \/ \E p \in Callers : call[p].event = e

\* Unless a call gave up its request, an event is signalled only from the
\* completion of the request it serves until putEvent resets it.
Timely ==
    ~timedOut =>
      /\ orphans = {} /\ ~early
      /\ \A i \in DOMAIN pool : pool[i] \notin signalled
      /\ \A p \in Callers :
           /\ call[p].at = "issue" => call[p].event \notin signalled
           /\ call[p].at = "wait" /\ call[p].event \in signalled => call[p].io = "done"

\* Once Close has emptied the pool, every call under way is counted, and so is
\* every event: one is created only when all others are in use.
Bounded ==
    /\ closing \in {"dev", "iface", "closed"} =>
         Busy \subseteq inFlight /\ Cardinality(live) <= Cardinality(inFlight)
    /\ closing \in {"iface", "closed"} => ~devIo

\* While ConfigureInterface sets an address, no other one is untracked.
Tracked ==
    ~raced => /\ config # NoConfig => closing = "no"
              /\ addresses \subseteq {configuredIP} \cup undeleted
              /\ config.at = "set" => addresses \subseteq {config.ip} \cup undeleted

\* Finitely many events have been created.
Finite == IsFiniteSet(live)

IInv == Typed /\ Stages /\ Owned /\ Timely /\ Bounded /\ Tracked /\ Finite

-----------------------------------------------------------------------------
(* What a step leaves alone *)

\* An invariant is kept by a step that changes none of its variables.
LEMMA Frames ==
    ASSUME IInv
    PROVE  /\ UNCHANGED <<setup, macAddr, adapter, unsure, h, closing>> => Stages'
           /\ UNCHANGED <<call, pool, live>> => Owned'
           /\ UNCHANGED <<call, pool, signalled, orphans, timedOut, early>> => Timely'
           /\ UNCHANGED <<call, live, closing, inFlight, devIo>> => Bounded'
           /\ UNCHANGED <<closing, config, configuredIP, addresses, undeleted, raced>>
                => Tracked'
<1>1. UNCHANGED <<setup, macAddr, adapter, unsure, h, closing>> => Stages'
  BY DEF IInv, Stages
<1>2. UNCHANGED <<call, pool, live>> => Owned'
  BY Zenon DEF IInv, Owned, InUse
<1>3. UNCHANGED <<call, pool, signalled, orphans, timedOut, early>> => Timely'
  BY DEF IInv, Timely
<1>4. UNCHANGED <<call, live, closing, inFlight, devIo>> => Bounded'
  BY DEF IInv, Bounded, Busy
<1>5. UNCHANGED <<closing, config, configuredIP, addresses, undeleted, raced>> => Tracked'
  BY DEF IInv, Tracked
<1> QED
  BY <1>1, <1>2, <1>3, <1>4, <1>5, Zenon

\* The idle goroutine.
LEMMA IdleFacts ==
    /\ Idle \in Calls /\ CallOK(Idle)
    /\ Idle.at = "idle" /\ Idle.event = None /\ Idle.io = "none"
BY Zenon DEF Idle, Calls, CallOK

\* One caller goes on; the others do not.
LEMMA DoesFacts ==
    ASSUME IInv, NEW p \in Callers, NEW c \in Calls, CallOK(c), Does(p, c)
    PROVE  /\ call' \in [Callers -> Calls] /\ \A q \in Callers : CallOK(call'[q])
           /\ call'[p] = c
           /\ \A q \in Callers \ {p} : call'[q] = call[q]
<1>1. call' \in [Callers -> Calls] /\ call'[p] = c /\ \A q \in Callers \ {p} : call'[q] = call[q]
  BY Zenon DEF IInv, Typed, Does
<1>2. \A q \in Callers : CallOK(call[q])
  BY Zenon DEF IInv, Typed
<1> QED
  BY <1>1, <1>2, Zenon

\* A caller that keeps the event it has, or has none.
LEMMA KeepsEvent ==
    ASSUME IInv, NEW p \in Callers, NEW c \in Calls, CallOK(c), Does(p, c),
           c.event = call[p].event, UNCHANGED <<pool, live>>
    PROVE  Owned'
<1>1. \A q \in Callers : call'[q].event = call[q].event
  BY DoesFacts, Zenon
<1> QED
  BY <1>1 DEF IInv, Owned, InUse

\* A caller that is already counted.
LEMMA KeepsBound ==
    ASSUME IInv, NEW p \in Callers, NEW c \in Calls, CallOK(c), Does(p, c),
           call[p] # Idle, UNCHANGED <<live, closing, inFlight, devIo>>
    PROVE  Bounded'
<1>1. Busy' \subseteq Busy
  BY DoesFacts, Zenon DEF Busy
<1> QED
  BY <1>1, Zenon DEF IInv, Bounded

\* The caller of a step, and what it becomes.
LEMMA CallerFacts ==
    ASSUME IInv, NEW p \in Callers
    PROVE  /\ call[p] \in Calls /\ CallOK(call[p])
           /\ call[p].at # "idle" => call[p] # Idle
BY IdleFacts, Zenon DEF IInv, Typed

-----------------------------------------------------------------------------
(* Create *)

\* Before Create.
LEMMA InitInv == Init => IInv
<1> SUFFICES ASSUME Init PROVE IInv
  BY Zenon
<1> USE TapAssumption
<1>1. \A p \in Callers : call[p] = Idle
  BY Zenon DEF Init
<1>2. Typed
  <2>1. call \in [Callers -> Calls] /\ \A p \in Callers : CallOK(call[p])
    BY <1>1, IdleFacts, Zenon DEF Init
  <2>2. pool \in Seq(Events)
    BY DEF Init
  <2>3. config \in [at : {"idle", "delete", "set"}, ip : IPs \cup {None}]
        /\ config.at = "idle" /\ config = NoConfig
    BY Zenon DEF Init, NoConfig
  <2> QED
    BY <2>1, <2>2, <2>3, Zenon DEF Init, Typed
<1>3. Stages
  BY Zenon DEF Init, Stages
<1>4. Owned
  BY <1>1, IdleFacts DEF Init, Owned, InUse
<1>5. Timely
  BY <1>1, IdleFacts, Zenon DEF Init, Timely
<1>6. Bounded
  BY Zenon DEF Init, Bounded
<1>7. Tracked
  BY Zenon DEF Init, Tracked, NoConfig
<1>8. Finite
  BY FS_EmptySet, Zenon DEF Init, Finite
<1> QED
  BY <1>2, <1>3, <1>4, <1>5, <1>6, <1>7, <1>8, Zenon DEF IInv

\* Create, IfMac and the driver (newDevice, findAndConfigureTapDevice,
\* restartTapWindows) keep the invariant.
LEMMA CreateKeeps ==
    ASSUME IInv, Create \/ Apply
    PROVE  IInv'
<1>1. /\ UNCHANGED <<call, pool, live, signalled, orphans, timedOut, early>>
      /\ UNCHANGED <<closing, inFlight, config, configuredIP, addresses, undeleted, raced>>
      /\ UNCHANGED devIo \/ closing = "no"
  BY Zenon DEF IInv, Stages, Create, Find, Disable, Enable, Refresh, Open,
     SetMediaStatus, IfMac, Apply, CreateOnly, handle, refs, link, io, notes, Setup
<1>2. adapter' \in [mac : {"old", "new"}, enabled : BOOLEAN, restarted : BOOLEAN]
  BY Zenon DEF IInv, Typed, Create, Find, Disable, Enable, Refresh, Open,
     SetMediaStatus, IfMac, Apply
<1>3. Typed'
  BY <1>1, <1>2, Zenon DEF IInv, Typed
<1>4. Owned' /\ Timely' /\ Tracked'
  BY <1>1, Frames, Zenon
<1>5. Bounded'
  BY <1>1, Frames, Zenon DEF Bounded
<1>6. Stages'
  <2>1. CASE Find \/ Disable \/ Enable
    BY <2>1, <1>1, Zenon DEF IInv, Typed, Stages, Find, Disable, Enable, Setup,
       CreateOnly, handle
  <2>2. CASE Refresh
    BY <2>2, <1>1, Zenon DEF IInv, Typed, Stages, Refresh, CreateOnly, handle
  <2>3. CASE Open \/ SetMediaStatus
    BY <2>3, <1>1, Zenon DEF IInv, Typed, Stages, Open, SetMediaStatus, Setup
  <2>4. CASE IfMac \/ Apply
    BY <2>4, <1>1, Zenon DEF IInv, Typed, Stages, IfMac, Apply, Setup, CreateOnly,
       handle
  <2> QED
    BY <2>1, <2>2, <2>3, <2>4, Zenon DEF Create
<1>7. Finite'
  BY <1>1 DEF IInv, Finite
<1> QED
  BY <1>3, <1>4, <1>5, <1>6, <1>7, Zenon DEF IInv

-----------------------------------------------------------------------------
(* Reads and writes *)

\* A call that passes the tests for nil (Interface.Read, Device.Read and the
\* same for Write).
LEMMA EnterKeeps ==
    ASSUME IInv, NEW p \in Callers, Enter(p)
    PROVE  IInv'
<1>1. PICK d \in BOOLEAN : Does(p, [Idle EXCEPT !.at = "tested", !.deadline = d])
  BY Zenon DEF Enter
<1> DEFINE c == [Idle EXCEPT !.at = "tested", !.deadline = d]
<1>2. c \in Calls /\ CallOK(c) /\ c.event = None /\ c.at = "tested" /\ Does(p, c)
  BY <1>1, TapAssumption, Zenon DEF Idle, Calls, CallOK
<1>3. /\ call[p] = Idle /\ devIo
      /\ inFlight' = IF closing = "dev" THEN inFlight \cup {p} ELSE inFlight
      /\ UNCHANGED <<pool, live, signalled, orphans, timedOut, early, devIo, closing>>
      /\ UNCHANGED <<setup, macAddr, adapter, unsure, h>>
      /\ UNCHANGED <<config, configuredIP, addresses, undeleted, raced>>
  BY Zenon DEF Enter, CallOnly, create, refs, link, handle
<1> HIDE DEF c
<1>4. /\ call' \in [Callers -> Calls] /\ \A q \in Callers : CallOK(call'[q])
      /\ call'[p] = c /\ \A q \in Callers \ {p} : call'[q] = call[q]
  BY <1>2, DoesFacts, Zenon
<1>5. Typed'
  BY <1>3, <1>4, Zenon DEF IInv, Typed
<1>6. Owned'
  BY <1>2, <1>3, IdleFacts, KeepsEvent, Zenon
<1>7. Timely'
  BY <1>2, <1>3, <1>4, Zenon DEF IInv, Timely
<1>8. Stages' /\ Tracked'
  BY <1>3, Frames, Zenon
<1>9. Bounded'
  <2>1. CASE closing = "dev"
    <3>1. Busy' \subseteq Busy \cup {p}
      BY <1>4, Zenon DEF Busy
    <3>2. inFlight' = inFlight \cup {p} /\ inFlight \subseteq Callers /\ IsFiniteSet(Callers)
      BY <1>3, <2>1, TapAssumption, Zenon DEF IInv, Typed
    <3>3. /\ IsFiniteSet(inFlight) /\ IsFiniteSet(inFlight')
          /\ Cardinality(inFlight) <= Cardinality(inFlight')
      BY <3>2, FS_Subset
    <3>4. Cardinality(live) <= Cardinality(inFlight) /\ Busy \subseteq inFlight
      BY <2>1, Zenon DEF IInv, Bounded
    <3>5. Cardinality(live) <= Cardinality(inFlight')
      <4>1. IsFiniteSet(live)
        BY Zenon DEF IInv, Finite
      <4>2. Cardinality(live) \in Nat /\ Cardinality(inFlight) \in Nat /\ Cardinality(inFlight') \in Nat
        BY <3>3, <4>1, FS_CardinalityType, Zenon
      <4> QED
        BY <3>3, <3>4, <4>2
    <3> QED
      BY <1>3, <2>1, <3>1, <3>2, <3>4, <3>5, Zenon DEF Bounded
  <2>2. CASE closing # "dev"
    BY <1>3, <2>2, Zenon DEF IInv, Bounded
  <2> QED
    BY <2>1, <2>2
<1>10. Finite'
  BY <1>3 DEF IInv, Finite
<1> QED
  BY <1>5, <1>6, <1>7, <1>8, <1>9, <1>10, Zenon DEF IInv

\* The steps of a call that keep its event: dereferencing what was tested,
\* ReadFile or WriteFile, the completion by the kernel, and the return of the
\* wait.
LEMMA RequestKeeps ==
    ASSUME IInv, NEW p \in Callers,
           Deref(p) \/ Issue(p) \/ Complete(p) \/ Await(p) \/ Timeout(p)
    PROVE  IInv'
<1>1. call[p] \in Calls /\ CallOK(call[p])
  BY CallerFacts, Zenon
<1>2. PICK c \in Calls : /\ CallOK(c) /\ Does(p, c) /\ c.event = call[p].event
                         /\ call[p] # Idle
                         /\ c.at = "issue" => call[p].at = "issue"
  <2>1. CASE Deref(p)
    <3> DEFINE c == [call[p] EXCEPT !.at = "event"]
    <3>1. c \in Calls /\ CallOK(c) /\ c.event = call[p].event /\ c.at = "event"
      BY <1>1, <2>1, IdleFacts, Zenon DEF Deref, Calls, CallOK
    <3> QED
      BY <2>1, <3>1, CallerFacts, Zenon DEF Deref
  <2>2. CASE Issue(p)
    <3> DEFINE c == [call[p] EXCEPT !.at = "wait", !.io = "pending"]
               d == [call[p] EXCEPT !.at = "put"]
    <3>1. c \in Calls /\ CallOK(c) /\ c.event = call[p].event /\ c.at = "wait"
      BY <1>1, <2>2, IdleFacts, Zenon DEF Issue, Calls, CallOK
    <3>2. d \in Calls /\ CallOK(d) /\ d.event = call[p].event /\ d.at = "put"
      BY <1>1, <2>2, IdleFacts, Zenon DEF Issue, Calls, CallOK
    <3> QED
      BY <2>2, <3>1, <3>2, CallerFacts DEF Issue
  <2>3. CASE Complete(p)
    <3> DEFINE c == [call[p] EXCEPT !.io = "done"]
    <3>1. c \in Calls /\ CallOK(c) /\ c.event = call[p].event /\ c.at = "wait"
      BY <1>1, <2>3, IdleFacts, Zenon DEF Complete, Calls, CallOK
    <3> QED
      BY <1>1, <2>3, <3>1, CallerFacts, Zenon DEF Complete, CallOK
  <2>4. CASE Await(p) \/ Timeout(p)
    <3> DEFINE c == [call[p] EXCEPT !.at = "put", !.io = "none"]
    <3>1. c \in Calls /\ CallOK(c) /\ c.event = call[p].event /\ c.at = "put"
      BY <1>1, <2>4, IdleFacts, Zenon DEF Await, Timeout, Calls, CallOK
    <3> QED
      BY <2>4, <3>1, CallerFacts, Zenon DEF Await, Timeout
  <2> QED
    BY <2>1, <2>2, <2>3, <2>4, Zenon
<1>3. /\ UNCHANGED <<pool, live, devIo, closing, inFlight>>
      /\ UNCHANGED <<setup, macAddr, adapter, unsure, h>>
      /\ UNCHANGED <<config, configuredIP, addresses, undeleted, raced>>
  BY Zenon DEF Deref, Issue, Complete, Await, Timeout, CallOnly, create, refs, link,
     handle, notes
<1>4. /\ call' \in [Callers -> Calls] /\ \A q \in Callers : CallOK(call'[q])
      /\ call'[p] = c /\ \A q \in Callers \ {p} : call'[q] = call[q]
  BY <1>2, DoesFacts, Zenon
<1>5. signalled' \subseteq live
  <2>1. CASE Complete(p)
    BY <1>1, <2>1 DEF IInv, Typed, Owned, InUse, Complete, CallOK
  <2>2. CASE ~Complete(p)
    BY <2>2, Zenon DEF IInv, Typed, Deref, Issue, Await, Timeout, handle
  <2> QED
    BY <2>1, <2>2, Zenon
<1>6. Typed'
  BY <1>3, <1>4, <1>5, Zenon DEF IInv, Typed
<1>7. Owned' /\ Bounded'
  BY <1>2, <1>3, KeepsEvent, KeepsBound, Zenon
<1>8. Stages' /\ Tracked'
  BY <1>3, Frames, Zenon
<1>9. Timely'
  <2>1. CASE Timeout(p)
    BY <2>1, Zenon DEF Timely, Timeout
  <2>2. CASE Deref(p)
    BY <1>1, <1>3, <1>4, <2>2 DEF IInv, Timely, Deref, Does, Calls, handle
  <2>3. CASE Issue(p)
    <3>1. UNCHANGED <<signalled, orphans, timedOut, early>> /\ call[p].at = "issue"
      BY <2>3, Zenon DEF Issue, handle
    <3>2. c.at \in {"wait", "put"}
      <4>1. PICK d : /\ Does(p, d)
                     /\ \/ d = [call[p] EXCEPT !.at = "wait", !.io = "pending"]
                        \/ d = [call[p] EXCEPT !.at = "put"]
        BY <2>3, Zenon DEF Issue
      <4>2. d = c
        <5>1. call \in [Callers -> Calls] /\ call' = [call EXCEPT ![p] = d] /\ call'[p] = c
          BY <1>4, <4>1, Zenon DEF IInv, Typed, Does
        <5> QED
          BY <5>1, Zenon
      <4>3. d.at \in {"wait", "put"}
        BY <1>1, <4>1, Zenon DEF Calls
      <4> QED
        BY <4>2, <4>3, Zenon
    <3>3. ~timedOut => call[p].event \notin signalled
      BY <3>1, Zenon DEF IInv, Timely
    <3> QED
      BY <1>2, <1>3, <1>4, <3>1, <3>2, <3>3, Zenon DEF IInv, Timely
  <2>4. CASE Complete(p)
    <3> SUFFICES ASSUME ~timedOut PROVE Timely'
      BY <2>4, Zenon DEF Timely, Complete, notes
    <3>1. /\ signalled' = signalled \cup {call[p].event}
          /\ call[p].at = "wait" /\ call[p].event # None /\ c.io = "done" /\ c.at = "wait"
          /\ UNCHANGED <<orphans, timedOut, early>>
      BY <1>1, <1>4, <2>4 DEF Complete, CallOK, Does, Calls, notes
    <3>2. \A i \in DOMAIN pool : pool[i] \notin signalled'
      BY <3>1, Zenon DEF IInv, Timely, Owned, InUse
    <3>3. \A q \in Callers \ {p} : call[q].event # call[p].event
      BY <3>1, Zenon DEF IInv, Owned, InUse
    <3>4. \A q \in Callers :
            /\ call'[q].at = "issue" => call'[q].event \notin signalled'
            /\ call'[q].at = "wait" /\ call'[q].event \in signalled' => call'[q].io = "done"
      BY <1>4, <3>1, <3>3, Zenon DEF IInv, Timely
    <3> QED
      BY <1>3, <3>1, <3>2, <3>4, Zenon DEF IInv, Timely
  <2>5. CASE Await(p)
    BY <1>1, <1>3, <1>4, <2>5 DEF IInv, Timely, Await, Does, Calls, handle
  <2> QED
    BY <2>1, <2>2, <2>3, <2>4, <2>5, Zenon
<1>10. Finite'
  BY <1>3, Zenon DEF IInv, Finite
<1> QED
  BY <1>6, <1>7, <1>8, <1>9, <1>10, Zenon DEF IInv

\* A sequence without its last element, and with one more.
LEMMA TakeLast ==
    ASSUME NEW S, NEW s \in Seq(S), s # <<>>
    PROVE  /\ Len(s) \in DOMAIN s /\ s[Len(s)] \in S
           /\ SubSeq(s, 1, Len(s) - 1) \in Seq(S)
           /\ DOMAIN SubSeq(s, 1, Len(s) - 1) = DOMAIN s \ {Len(s)}
           /\ \A i \in DOMAIN s \ {Len(s)} : SubSeq(s, 1, Len(s) - 1)[i] = s[i]
OBVIOUS

\* An event that is given back is the last of the pool.
LEMMA AddLast ==
    ASSUME NEW S, NEW s \in Seq(S), NEW e \in S
    PROVE  /\ Append(s, e) \in Seq(S)
           /\ DOMAIN Append(s, e) = DOMAIN s \cup {Len(s) + 1}
           /\ Len(s) + 1 \notin DOMAIN s /\ Append(s, e)[Len(s) + 1] = e
           /\ \A i \in DOMAIN s : Append(s, e)[i] = s[i]
OBVIOUS

\* Callers that have different events are at least as many as the events.
LEMMA EventsOfCallers ==
    ASSUME NEW L, NEW C \in SUBSET Callers, NEW has,
           \A e \in L : \E p \in C : has[p] = e
    PROVE  IsFiniteSet(L) /\ IsFiniteSet(C) /\ Cardinality(L) <= Cardinality(C)
<1> DEFINE f == [e \in L |-> CHOOSE p \in C : has[p] = e]
<1>1. f \in [L -> C] /\ \A e \in L : has[f[e]] = e
  BY Zenon
<1> HIDE DEF f
<1>2. f \in Injection(L, C)
  BY <1>1, Fun_IsInj, Zenon
<1>3. IsFiniteSet(C)
  BY TapAssumption, FS_Subset, Zenon
<1> QED
  BY <1>2, <1>3, FS_Injection, Zenon

\* getEvent with an event in the pool.
LEMMA PooledKeeps ==
    ASSUME IInv, NEW p \in Callers, GetEvent(p), pool # <<>>
    PROVE  IInv'
<1> DEFINE e == pool[Len(pool)]
           c == [call[p] EXCEPT !.at = "issue", !.event = e]
<1>1. call[p] \in Calls /\ CallOK(call[p]) /\ call[p].at = "event" /\ call[p] # Idle
  BY CallerFacts, Zenon DEF GetEvent
<1>2. pool \in Seq(Events)
  BY Zenon DEF IInv, Typed
<1>3. /\ Does(p, c) /\ pool' = SubSeq(pool, 1, Len(pool) - 1)
      /\ UNCHANGED <<live, signalled, orphans, timedOut, early, devIo, closing, inFlight>>
      /\ UNCHANGED <<setup, macAddr, adapter, unsure, h>>
      /\ UNCHANGED <<config, configuredIP, addresses, undeleted, raced>>
  BY Zenon DEF GetEvent, CallOnly, create, refs, link, notes
<1>4. Len(pool) \in DOMAIN pool /\ e \in Events
  BY <1>2, TakeLast, Zenon
<1>5. /\ pool' \in Seq(Events) /\ DOMAIN pool' = DOMAIN pool \ {Len(pool)}
      /\ \A i \in DOMAIN pool' : pool'[i] = pool[i]
  BY <1>2, <1>3, TakeLast, Zenon
<1>6. c \in Calls /\ CallOK(c) /\ c.event = e /\ c.at = "issue" /\ e # None
  BY <1>1, <1>4, TapAssumption DEF Calls, CallOK, Idle
<1> HIDE DEF c
<1>7. /\ call' \in [Callers -> Calls] /\ \A q \in Callers : CallOK(call'[q])
      /\ call'[p] = c /\ \A q \in Callers \ {p} : call'[q] = call[q]
  BY <1>3, <1>6, DoesFacts, Zenon
<1>8. e \in live /\ \A q \in Callers : call[q].event # e
  BY <1>4, <1>6, Zenon DEF IInv, Owned, InUse
<1>9. \A i \in DOMAIN pool' : i \in DOMAIN pool /\ pool'[i] = pool[i] /\ pool'[i] # e
  BY <1>4, <1>5, Zenon DEF IInv, Owned
<1>10. \A i \in DOMAIN pool : pool[i] = e \/ (i \in DOMAIN pool' /\ pool'[i] = pool[i])
  BY <1>5, Zenon
<1>11. call[p].event = None
  BY <1>1, Zenon DEF CallOK
<1> HIDE DEF e
<1>12. Typed'
  BY <1>3, <1>5, <1>7 DEF IInv, Typed
<1>13. Owned'
  <2>1. ASSUME NEW q \in Callers, call'[q].event # None
        PROVE  /\ call'[q].event \in live'
               /\ \A r \in Callers \ {q} : call'[r].event # call'[q].event
               /\ \A i \in DOMAIN pool' : pool'[i] # call'[q].event
    <3>1. CASE q = p
      BY <1>3, <1>6, <1>7, <1>8, <1>9, <3>1
    <3>2. CASE q # p
      BY <1>3, <1>6, <1>7, <1>8, <1>9, <2>1, <3>2 DEF IInv, Owned, InUse
    <3> QED
      BY <3>1, <3>2
  <2>2. \A i, j \in DOMAIN pool' : pool'[i] = pool'[j] => i = j
    BY <1>9, Zenon DEF IInv, Owned
  <2>3. \A i \in DOMAIN pool' : pool'[i] \in live'
    BY <1>3, <1>9, Zenon DEF IInv, Owned
  <2>4. ASSUME NEW d \in live'
        PROVE  \/ \E i \in DOMAIN pool' : pool'[i] = d
               \/ \E q \in Callers : call'[q].event = d
    <3>1. CASE d = e
      BY <1>6, <1>7, <3>1, Zenon
    <3>2. CASE \E i \in DOMAIN pool : pool[i] = d
      BY <1>10, <3>1, <3>2, Zenon
    <3>3. CASE \E q \in Callers : call[q].event = d
      <4>1. d # None
        BY <1>3, <2>4, TapAssumption, Zenon DEF IInv, Typed
      <4> QED
        BY <1>7, <1>11, <3>3, <4>1
    <3> QED
      BY <1>3, <2>4, <3>2, <3>3, Zenon DEF IInv, Owned
  <2> QED
    BY <2>1, <2>2, <2>3, <2>4, Zenon DEF Owned, InUse
<1>14. Timely'
  <2> SUFFICES ASSUME ~timedOut PROVE Timely'
    BY <1>3, Zenon DEF Timely
  <2>1. e \notin signalled
    BY <1>4 DEF IInv, Timely, e
  <2>2. \A q \in Callers :
          /\ call'[q].at = "issue" => call'[q].event \notin signalled'
          /\ call'[q].at = "wait" /\ call'[q].event \in signalled' => call'[q].io = "done"
    BY <1>3, <1>6, <1>7, <2>1, Zenon DEF IInv, Timely
  <2> QED
    BY <1>3, <1>9, <2>2, Zenon DEF IInv, Timely
<1>15. Bounded'
  BY <1>1, <1>3, <1>6, KeepsBound
<1>16. Stages' /\ Tracked'
  BY <1>3, Frames, Zenon
<1>17. Finite'
  BY <1>3, Zenon DEF IInv, Finite
<1> QED
  BY <1>12, <1>13, <1>14, <1>15, <1>16, <1>17 DEF IInv

\* getEvent with an empty pool: CreateEvent, or its error.
LEMMA CreatedKeeps ==
    ASSUME IInv, NEW p \in Callers, GetEvent(p), pool = <<>>
    PROVE  IInv'
<1>1. call[p] \in Calls /\ CallOK(call[p]) /\ call[p].at = "event" /\ call[p] # Idle
  BY CallerFacts, Zenon DEF GetEvent
<1>2. /\ UNCHANGED <<pool, signalled, orphans, timedOut, early, devIo, closing, inFlight>>
      /\ UNCHANGED <<setup, macAddr, adapter, unsure, h>>
      /\ UNCHANGED <<config, configuredIP, addresses, undeleted, raced>>
  BY Zenon DEF GetEvent, CallOnly, create, refs, link, notes
<1>3. call[p].event = None
  BY <1>1, Zenon DEF CallOK
<1>4. DOMAIN pool = {} /\ DOMAIN pool' = {}
  BY <1>2
<1>5. Stages' /\ Tracked'
  BY <1>2, Frames, Zenon
<1>6. CASE Does(p, Idle) /\ UNCHANGED live
  <2>1. /\ call' \in [Callers -> Calls] /\ \A q \in Callers : CallOK(call'[q])
        /\ call'[p] = Idle /\ \A q \in Callers \ {p} : call'[q] = call[q]
    BY <1>6, IdleFacts, DoesFacts, Zenon
  <2>2. Typed'
    BY <1>2, <1>6, <2>1 DEF IInv, Typed
  <2>3. Owned' /\ Bounded'
    BY <1>1, <1>2, <1>3, <1>6, IdleFacts, KeepsEvent, KeepsBound, Zenon
  <2>4. Timely'
    BY <1>2, <2>1, IdleFacts, Zenon DEF IInv, Timely
  <2>5. Finite'
    BY <1>6, Zenon DEF IInv, Finite
  <2> QED
    BY <1>5, <2>2, <2>3, <2>4, <2>5 DEF IInv
<1>7. CASE ~(Does(p, Idle) /\ UNCHANGED live)
  <2>1. PICK e \in Events \ live :
          Does(p, [call[p] EXCEPT !.at = "issue", !.event = e]) /\ live' = live \cup {e}
    <3>1. Events \ live # {}
      BY <1>7, Zenon DEF IInv, Typed, GetEvent
    <3> QED
      BY <1>7, <3>1, Zenon DEF GetEvent
  <2> DEFINE c == [call[p] EXCEPT !.at = "issue", !.event = e]
  <2>2. c \in Calls /\ CallOK(c) /\ c.event = e /\ c.at = "issue" /\ e # None
    BY <1>1, <2>1, TapAssumption, Zenon DEF Calls, CallOK, Idle
  <2>3. Does(p, c)
    BY <2>1, Zenon
  <2> HIDE DEF c
  <2>4. /\ call' \in [Callers -> Calls] /\ \A q \in Callers : CallOK(call'[q])
        /\ call'[p] = c /\ \A q \in Callers \ {p} : call'[q] = call[q]
    BY <2>2, <2>3, DoesFacts, Zenon
  <2>5. \A q \in Callers : call[q].event # e
    BY <2>1, <2>2, Zenon DEF IInv, Owned, InUse
  <2>6. e \notin signalled
    BY <2>1, Zenon DEF IInv, Typed
  <2>7. \A d \in live : \E q \in Callers \ {p} : call[q].event = d
    <3> SUFFICES ASSUME NEW d \in live PROVE \E q \in Callers \ {p} : call[q].event = d
      BY Zenon
    <3>1. PICK q \in Callers : call[q].event = d
      BY <1>4, Zenon DEF IInv, Owned
    <3>2. d # None
      BY TapAssumption, Zenon DEF IInv, Typed
    <3> QED
      BY <1>3, <3>1, <3>2, Zenon
  <2>8. Typed'
    BY <1>2, <2>1, <2>4 DEF IInv, Typed
  <2>9. Owned'
    <3>1. ASSUME NEW q \in Callers, call'[q].event # None
          PROVE  /\ call'[q].event \in live'
                 /\ \A r \in Callers \ {q} : call'[r].event # call'[q].event
      <4>1. CASE q = p
        BY <2>1, <2>2, <2>4, <2>5, <4>1, Zenon
      <4>2. CASE q # p
        BY <2>1, <2>2, <2>4, <2>5, <3>1, <4>2 DEF IInv, Owned, InUse
      <4> QED
        BY <4>1, <4>2
    <3>2. \A d \in live' : \E q \in Callers : call'[q].event = d
      BY <2>1, <2>2, <2>4, <2>7, Zenon
    <3> QED
      BY <1>4, <3>1, <3>2, Zenon DEF Owned, InUse
  <2>10. Timely'
    BY <1>2, <2>2, <2>4, <2>6, Zenon DEF IInv, Timely
  <2>11. Finite'
    BY <2>1, FS_AddElement, Zenon DEF IInv, Finite
  <2>12. Bounded'
    <3> SUFFICES ASSUME closing \in {"dev", "iface", "closed"}
                 PROVE  Busy' \subseteq inFlight /\ Cardinality(live') <= Cardinality(inFlight)
      BY <1>2, Zenon DEF IInv, Bounded
    <3>1. Busy \subseteq inFlight /\ p \in Busy /\ Busy' \subseteq Busy
      BY <1>1, <2>4, Zenon DEF IInv, Bounded, Busy
    <3> DEFINE has == [q \in Callers |-> call[q].event]
               C == Busy \ {p}
    <3>2. \A d \in live : \E q \in C : has[q] = d
      BY <2>7, IdleFacts, TapAssumption DEF Busy, IInv, Typed
    <3>3. C \in SUBSET Callers /\ Busy \subseteq Callers /\ inFlight \subseteq Callers
      BY Zenon DEF Busy, IInv, Typed
    <3> HIDE DEF has, C
    <3>4. IsFiniteSet(live) /\ IsFiniteSet(C) /\ Cardinality(live) <= Cardinality(C)
      BY <3>2, <3>3, EventsOfCallers, Zenon
    <3>5. IsFiniteSet(inFlight) /\ IsFiniteSet(Busy) /\ Cardinality(Busy) <= Cardinality(inFlight)
      BY <3>1, <3>3, TapAssumption, FS_Subset, Zenon
    <3>6. Cardinality(C) = Cardinality(Busy) - 1
      BY <3>1, <3>5, FS_RemoveElement, Zenon DEF C
    <3>7. Cardinality(live') = Cardinality(live) + 1
      BY <2>1, <3>4, FS_AddElement, Zenon
    <3>8. /\ Cardinality(live) \in Nat /\ Cardinality(C) \in Nat
          /\ Cardinality(Busy) \in Nat /\ Cardinality(inFlight) \in Nat
      BY <3>4, <3>5, FS_CardinalityType, Zenon
    <3> QED
      BY <3>1, <3>4, <3>5, <3>6, <3>7, <3>8
  <2> QED
    BY <1>5, <2>8, <2>9, <2>10, <2>11, <2>12 DEF IInv
<1> QED
  BY <1>6, <1>7, Zenon

\* putEvent.
LEMMA PutEventKeeps ==
    ASSUME IInv, NEW p \in Callers, PutEvent(p)
    PROVE  IInv'
<1>1. call[p] \in Calls /\ CallOK(call[p]) /\ call[p].at = "put" /\ call[p] # Idle
  BY CallerFacts, Zenon DEF PutEvent
<1>2. PICK e \in Events : e = call[p].event
  BY <1>1, Zenon DEF Calls, CallOK
<1>3. /\ Does(p, Idle) /\ pool' = Append(pool, e) /\ signalled' = signalled \ {e}
      /\ UNCHANGED <<live, orphans, timedOut, early, devIo, closing, inFlight>>
      /\ UNCHANGED <<setup, macAddr, adapter, unsure, h>>
      /\ UNCHANGED <<config, configuredIP, addresses, undeleted, raced>>
  BY <1>2, Zenon DEF PutEvent, CallOnly, create, refs, link, notes
<1>4. pool \in Seq(Events) /\ e # None
  BY TapAssumption, Zenon DEF IInv, Typed
<1>5. /\ pool' \in Seq(Events) /\ DOMAIN pool' = DOMAIN pool \cup {Len(pool) + 1}
      /\ Len(pool) + 1 \notin DOMAIN pool /\ pool'[Len(pool) + 1] = e
      /\ \A i \in DOMAIN pool : pool'[i] = pool[i]
  BY <1>3, <1>4, AddLast
<1>6. PICK n : /\ pool' \in Seq(Events) /\ DOMAIN pool' = DOMAIN pool \cup {n}
               /\ n \notin DOMAIN pool /\ pool'[n] = e
               /\ \A i \in DOMAIN pool : pool'[i] = pool[i]
  BY <1>5, Zenon
<1>7. /\ call' \in [Callers -> Calls] /\ \A q \in Callers : CallOK(call'[q])
      /\ call'[p] = Idle /\ \A q \in Callers \ {p} : call'[q] = call[q]
  BY <1>3, IdleFacts, DoesFacts, Zenon
<1>8. /\ e \in live /\ \A q \in Callers \ {p} : call[q].event # e
      /\ \A i \in DOMAIN pool : pool[i] # e
  BY <1>2, <1>4, Zenon DEF IInv, Owned, InUse
<1>9. Typed'
  BY <1>3, <1>6, <1>7, Zenon DEF IInv, Typed
<1>10. Owned'
  <2>1. ASSUME NEW q \in Callers, call'[q].event # None
        PROVE  /\ call'[q].event \in live'
               /\ \A r \in Callers \ {q} : call'[r].event # call'[q].event
               /\ \A i \in DOMAIN pool' : pool'[i] # call'[q].event
    <3>1. q # p /\ call'[q] = call[q] /\ call[q].event # e
      BY <1>7, <1>8, <2>1, IdleFacts, Zenon
    <3>2. call[q].event \in live /\ \A r \in Callers \ {q} : call'[r].event # call[q].event
      BY <1>7, <2>1, <3>1, IdleFacts DEF IInv, Owned, InUse
    <3>3. \A i \in DOMAIN pool : pool[i] # call[q].event
      BY <2>1, <3>1, Zenon DEF IInv, Owned, InUse
    <3> QED
      BY <1>3, <1>6, <3>1, <3>2, <3>3, Zenon
  <2>2. \A i, j \in DOMAIN pool' : pool'[i] = pool'[j] => i = j
    <3>1. \A i, j \in DOMAIN pool : pool[i] = pool[j] => i = j
      BY Zenon DEF IInv, Owned
    <3> QED
      BY <1>6, <1>8, <3>1, Zenon
  <2>3. \A i \in DOMAIN pool' : pool'[i] \in live'
    <3>1. \A i \in DOMAIN pool : pool[i] \in live
      BY Zenon DEF IInv, Owned
    <3> QED
      BY <1>3, <1>6, <1>8, <3>1, Zenon
  <2>4. ASSUME NEW d \in live'
        PROVE  \/ \E i \in DOMAIN pool' : pool'[i] = d
               \/ \E q \in Callers : call'[q].event = d
    <3>1. CASE d = e
      BY <1>6, <3>1, Zenon
    <3>2. CASE \E i \in DOMAIN pool : pool[i] = d
      BY <1>6, <3>2, Zenon
    <3>3. CASE d # e /\ \E q \in Callers : call[q].event = d
      BY <1>2, <1>7, <3>3, Zenon
    <3> QED
      BY <1>3, <2>4, <3>1, <3>2, <3>3, Zenon DEF IInv, Owned
  <2> QED
    BY <2>1, <2>2, <2>3, <2>4, Zenon DEF Owned, InUse
<1>11. Timely'
  <2> SUFFICES ASSUME ~timedOut PROVE Timely'
    BY <1>3, Zenon DEF Timely
  <2>1. \A i \in DOMAIN pool' : pool'[i] \notin signalled'
    <3>1. \A i \in DOMAIN pool : pool[i] \notin signalled
      BY Zenon DEF IInv, Timely
    <3> QED
      BY <1>3, <1>6, <3>1, Zenon
  <2>2. \A q \in Callers :
          /\ call'[q].at = "issue" => call'[q].event \notin signalled'
          /\ call'[q].at = "wait" /\ call'[q].event \in signalled' => call'[q].io = "done"
    BY <1>3, <1>7, IdleFacts, Zenon DEF IInv, Timely
  <2> QED
    BY <1>3, <2>1, <2>2, Zenon DEF IInv, Timely
<1>12. Bounded'
  BY <1>1, <1>3, IdleFacts, KeepsBound, Zenon
<1>13. Stages' /\ Tracked'
  BY <1>3, Frames, Zenon
<1>14. Finite'
  BY <1>3, Zenon DEF IInv, Finite
<1> QED
  BY <1>9, <1>10, <1>11, <1>12, <1>13, <1>14, Zenon DEF IInv

\* The completion of a request whose call has returned; there is one only
\* after a deadline.
LEMMA OrphanKeeps ==
    ASSUME IInv, CompleteOrphan
    PROVE  IInv'
<1>1. PICK r \in orphans : orphans' = orphans \ {r} /\ signalled' = signalled \cup ({r[2]} \cap live)
  BY Zenon DEF CompleteOrphan
<1>2. /\ UNCHANGED <<call, pool, live, timedOut, early, devIo, closing, inFlight>>
      /\ UNCHANGED <<setup, macAddr, adapter, unsure, h>>
      /\ UNCHANGED <<config, configuredIP, addresses, undeleted, raced>>
  BY Zenon DEF CompleteOrphan, create, refs, link, notes
<1>3. Typed'
  BY <1>1, <1>2, Zenon DEF IInv, Typed
<1>4. Timely'
  BY <1>1, <1>2, Zenon DEF IInv, Timely
<1>5. Stages' /\ Owned' /\ Bounded' /\ Tracked'
  BY <1>2, Frames, Zenon
<1>6. Finite'
  BY <1>2, Zenon DEF IInv, Finite
<1> QED
  BY <1>3, <1>4, <1>5, <1>6, Zenon DEF IInv

-----------------------------------------------------------------------------
(* ConfigureInterface *)

\* Deletion takes an address off the adapter or notes that it is still there.
LEMMA ConfigKeeps ==
    ASSUME IInv, DeletePrevious \/ SetIPAddress \/ \E ip \in IPs : Configure(ip)
    PROVE  IInv'
<1>1. /\ UNCHANGED <<call, pool, live, signalled, orphans, timedOut, early>>
      /\ UNCHANGED <<devIo, closing, inFlight, setup, macAddr, adapter, unsure, h>>
  BY Zenon DEF DeletePrevious, SetIPAddress, Configure, LinkOnly, create, handle,
     refs, io, notes
<1>2. /\ config \in [at : {"idle", "delete", "set"}, ip : IPs \cup {None}]
      /\ config.at = "idle" <=> config = NoConfig
      /\ addresses \subseteq IPs /\ None \notin IPs
  BY TapAssumption, Zenon DEF IInv, Typed
<1>3. /\ NoConfig \in [at : {"idle", "delete", "set"}, ip : IPs \cup {None}]
      /\ NoConfig.at = "idle"
  BY Zenon DEF NoConfig
<1>4. Stages' /\ Owned' /\ Timely' /\ Bounded'
  BY <1>1, Frames, Zenon
<1>5. Finite'
  BY <1>1, Zenon DEF IInv, Finite
<1>6. CASE DeletePrevious
  <2>1. /\ config' \in [at : {"idle", "delete", "set"}, ip : IPs \cup {None}]
        /\ config'.at = "set" /\ config.at = "delete" /\ config # NoConfig
        /\ config'.ip \in IPs
        /\ UNCHANGED <<configuredIP, raced>>
    BY <1>2, <1>3, <1>6, Zenon DEF DeletePrevious, IInv, Typed
  <2>2. addresses' \subseteq addresses
    BY <1>6, Zenon DEF DeletePrevious, Deletes
  <2>3. addresses \subseteq {configuredIP} \cup undeleted => addresses' \subseteq undeleted'
    BY <1>6, Zenon DEF DeletePrevious, Deletes
  <2>4. Typed'
    BY <1>1, <1>2, <1>3, <2>1, <2>2 DEF IInv, Typed
  <2>5. Tracked'
    BY <1>1, <2>1, <2>3, Zenon DEF IInv, Tracked
  <2> QED
    BY <1>4, <1>5, <2>4, <2>5, Zenon DEF IInv
<1>7. CASE SetIPAddress
  <2>1. config' = NoConfig /\ config.at = "set" /\ config # NoConfig /\ UNCHANGED raced
    BY <1>2, <1>3, <1>7, Zenon DEF SetIPAddress
  <2>2. config.ip \in IPs
    BY <2>1, Zenon DEF IInv, Typed
  <2>3. Typed'
    BY <1>1, <1>2, <1>3, <1>7, <2>1, <2>2 DEF IInv, Typed, SetIPAddress
  <2>4. Tracked'
    BY <1>1, <1>3, <1>7, <2>1 DEF IInv, Tracked, SetIPAddress
  <2> QED
    BY <1>4, <1>5, <2>3, <2>4 DEF IInv
<1>8. ASSUME NEW ip \in IPs, Configure(ip)
      PROVE  IInv'
  <2>1. /\ config' \in [at : {"idle", "delete", "set"}, ip : IPs \cup {None}]
        /\ config'.at \in {"set", "delete"} /\ config'.ip = ip
        /\ config'.at = "set" => configuredIP \in {None, ip}
        /\ raced' = (raced \/ closing # "no")
        /\ UNCHANGED <<configuredIP, addresses, undeleted>>
    BY <1>8, Zenon DEF Configure
  <2>2. Typed'
    BY <1>1, <1>2, <1>3, <2>1, Zenon DEF IInv, Typed
  <2>3. Tracked'
    BY <1>1, <1>2, <2>1, Zenon DEF IInv, Tracked
  <2> QED
    BY <1>4, <1>5, <2>2, <2>3, Zenon DEF IInv
<1> QED
  BY <1>6, <1>7, <1>8, Zenon

-----------------------------------------------------------------------------
(* Close *)

\* Interface.Close begins, and closePlatform deletes the address.
LEMMA PlatformKeeps ==
    ASSUME IInv, CloseStart \/ ClosePlatform
    PROVE  IInv'
<1>1. /\ UNCHANGED <<call, pool, live, signalled, orphans, timedOut, early>>
      /\ UNCHANGED <<devIo, inFlight, setup, macAddr, adapter, unsure, h, config>>
      /\ closing \in {"no", "platform"} /\ closing' \in {"platform", "cancel"}
      /\ closing = "no" => setup = "ready"
  BY Zenon DEF CloseStart, ClosePlatform, Closes, create, handle, refs, io, notes, link
<1>2. addresses' \subseteq addresses
  BY Zenon DEF CloseStart, ClosePlatform, Deletes
<1>3. Typed'
  BY <1>1, <1>2, Zenon DEF IInv, Typed
<1>4. Stages'
  BY <1>1, Zenon DEF IInv, Stages
<1>5. Owned' /\ Timely'
  BY <1>1, Frames, Zenon
<1>6. Bounded'
  BY <1>1, Zenon DEF Bounded
<1>7. Tracked'
  <2>1. CASE CloseStart
    BY <1>1, <2>1, Zenon DEF IInv, Tracked, CloseStart, Closes
  <2>2. CASE ClosePlatform
    <3> SUFFICES ASSUME ~raced PROVE Tracked'
      BY <2>2, Zenon DEF Tracked, ClosePlatform
    <3>1. config = NoConfig /\ addresses \subseteq {configuredIP} \cup undeleted
      BY <2>2, Zenon DEF IInv, Tracked, ClosePlatform, Closes
    <3>2. addresses' \subseteq undeleted'
      <4>1. CASE configuredIP = None
        <5>1. None \notin addresses
          BY TapAssumption, Zenon DEF IInv, Typed
        <5> QED
          BY <2>2, <3>1, <4>1, <5>1 DEF ClosePlatform
      <4>2. CASE configuredIP # None
        BY <2>2, <3>1, <4>2, Zenon DEF ClosePlatform, Deletes
      <4> QED
        BY <4>1, <4>2, Zenon
    <3> QED
      BY <1>1, <3>1, <3>2, Zenon DEF Tracked, NoConfig
  <2> QED
    BY <2>1, <2>2, Zenon
<1>8. Finite'
  BY <1>1, Zenon DEF IInv, Finite
<1> QED
  BY <1>3, <1>4, <1>5, <1>6, <1>7, <1>8, Zenon DEF IInv

\* Handle.Close cancels the requests ...
LEMMA CancelKeeps ==
    ASSUME IInv, CancelIo
    PROVE  IInv'
<1>1. /\ UNCHANGED <<pool, live, signalled, orphans, timedOut, early>>
      /\ UNCHANGED <<devIo, inFlight, setup, macAddr, adapter, unsure, h>>
      /\ UNCHANGED <<config, configuredIP, addresses, undeleted, raced>>
      /\ closing = "cancel" /\ closing' = "handle"
  BY Zenon DEF CancelIo, Closes, create, handle, refs, link, notes
<1>2. \A p \in Callers :
        /\ call'[p] \in Calls /\ CallOK(call'[p])
        /\ call'[p].event = call[p].event /\ call'[p].at = call[p].at
        /\ call[p].io = "done" => call'[p].io = "done"
  <2> SUFFICES ASSUME NEW p \in Callers
               PROVE  /\ call'[p] \in Calls /\ CallOK(call'[p])
                      /\ call'[p].event = call[p].event /\ call'[p].at = call[p].at
                      /\ call[p].io = "done" => call'[p].io = "done"
    BY Zenon
  <2>1. call[p] \in Calls /\ CallOK(call[p])
    BY CallerFacts, Zenon
  <2>2. call'[p] = IF call[p].io = "pending" THEN [call[p] EXCEPT !.io = "cancelled"] ELSE call[p]
    BY Zenon DEF CancelIo
  <2>3. CASE call[p].io = "pending"
    BY <2>1, <2>2, <2>3 DEF Calls, CallOK, Idle
  <2>4. CASE call[p].io # "pending"
    BY <2>1, <2>2, <2>4, Zenon
  <2> QED
    BY <2>3, <2>4, Zenon
<1>3. call' \in [Callers -> Calls]
  <2>1. call' = [p \in Callers |-> call'[p]]
    BY Zenon DEF CancelIo
  <2> QED
    BY <1>2, <2>1, Zenon
<1>4. Typed'
  BY <1>1, <1>2, <1>3, Zenon DEF IInv, Typed
<1>5. Stages'
  BY <1>1, Zenon DEF IInv, Stages
<1>6. Owned'
  BY <1>1, <1>2 DEF IInv, Owned, InUse
<1>7. Timely'
  BY <1>1, <1>2, Zenon DEF IInv, Timely
<1>8. Bounded'
  BY <1>1, Zenon DEF Bounded
<1>9. Tracked'
  BY <1>1, Zenon DEF IInv, Tracked
<1>10. Finite'
  BY <1>1, Zenon DEF IInv, Finite
<1> QED
  BY <1>4, <1>5, <1>6, <1>7, <1>8, <1>9, <1>10, Zenon DEF IInv

\* ... and closes the file.
LEMMA HandleKeeps ==
    ASSUME IInv, CloseHandle
    PROVE  IInv'
<1>1. /\ UNCHANGED <<call, pool, live, signalled, orphans, timedOut, early>>
      /\ UNCHANGED <<devIo, inFlight, setup, macAddr, adapter, unsure>>
      /\ UNCHANGED <<config, configuredIP, addresses, undeleted, raced>>
      /\ closing = "handle" /\ closing' = "events" /\ h' = "closed"
  BY Zenon DEF CloseHandle, Closes, create, refs, link, io, notes
<1>2. Typed'
  BY <1>1, Zenon DEF IInv, Typed
<1>3. Stages'
  BY <1>1, Zenon DEF IInv, Stages
<1>4. Owned' /\ Timely'
  BY <1>1, Frames, Zenon
<1>5. Bounded'
  BY <1>1, Zenon DEF Bounded
<1>6. Tracked'
  BY <1>1, Zenon DEF IInv, Tracked
<1>7. Finite'
  BY <1>1, Zenon DEF IInv, Finite
<1> QED
  BY <1>2, <1>3, <1>4, <1>5, <1>6, <1>7, Zenon DEF IInv

\* The events of the pool are closed: each of the others serves a call that is
\* under way.
LEMMA EventsKeeps ==
    ASSUME IInv, CloseEvents
    PROVE  IInv'
<1>1. /\ UNCHANGED <<call, orphans, timedOut, early>>
      /\ UNCHANGED <<devIo, setup, macAddr, adapter, unsure, h>>
      /\ UNCHANGED <<config, configuredIP, addresses, undeleted, raced>>
      /\ closing = "events" /\ closing' = "dev" /\ pool' = <<>> /\ inFlight' = Busy
      /\ live' = live \ {pool[i] : i \in DOMAIN pool} /\ signalled' = signalled \cap live'
  BY Zenon DEF CloseEvents, Closes, create, refs, link, io
<1>2. DOMAIN pool' = {} /\ pool' \in Seq(Events)
  BY <1>1
<1>3. Busy \subseteq Callers
  BY Zenon DEF Busy
<1>4. Typed'
  BY <1>1, <1>2, <1>3, Zenon DEF IInv, Typed
<1>5. Stages'
  BY <1>1, Zenon DEF IInv, Stages
<1>6. Owned'
  <2>1. \A p \in Callers : InUse(p) => call[p].event \in live'
    BY <1>1, Zenon DEF IInv, Owned
  <2>2. \A e \in live' : \E p \in Callers : call[p].event = e
    BY <1>1, Zenon DEF IInv, Owned
  <2>3. \A p \in Callers : InUse(p) => \A q \in Callers \ {p} : call[q].event # call[p].event
    BY Zenon DEF IInv, Owned
  <2> QED
    BY <1>1, <1>2, <2>1, <2>2, <2>3, Zenon DEF Owned, InUse
<1>7. Timely'
  BY <1>1, <1>2, Zenon DEF IInv, Timely
<1>8. Bounded' /\ Finite'
  <2> DEFINE has == [q \in Callers |-> call[q].event]
  <2>1. \A d \in live' : \E q \in Busy : has[q] = d
    <3> SUFFICES ASSUME NEW d \in live' PROVE \E q \in Busy : has[q] = d
      BY Zenon
    <3>1. PICK q \in Callers : call[q].event = d
      BY <1>1, Zenon DEF IInv, Owned
    <3>2. d # None
      BY <1>1, TapAssumption, Zenon DEF IInv, Typed
    <3> QED
      BY <3>1, <3>2, IdleFacts, Zenon DEF Busy
  <2> HIDE DEF has
  <2>2. IsFiniteSet(live') /\ Cardinality(live') <= Cardinality(Busy)
    BY <1>3, <2>1, EventsOfCallers
  <2>3. Busy' = Busy
    BY <1>1, Zenon DEF Busy
  <2> QED
    BY <1>1, <2>2, <2>3, Zenon DEF Bounded, Finite
<1>9. Tracked'
  BY <1>1, Zenon DEF IInv, Tracked
<1> QED
  BY <1>4, <1>5, <1>6, <1>7, <1>8, <1>9, Zenon DEF IInv

\* The references are forgotten: no call enters any more.
LEMMA ForgetKeeps ==
    ASSUME IInv, Forget
    PROVE  IInv'
<1>1. /\ UNCHANGED <<call, pool, live, signalled, orphans, timedOut, early>>
      /\ UNCHANGED <<setup, macAddr, adapter, unsure, h>>
      /\ UNCHANGED <<config, configuredIP, addresses, undeleted, raced>>
      /\ closing \in {"dev", "iface"} /\ closing' \in {"iface", "closed"}
      /\ closing = "dev" => ~devIo'
      /\ closing = "iface" => devIo' = devIo
      /\ inFlight' = inFlight \cup Busy
  BY Zenon DEF Forget, Closes, create, handle, link, io
<1>2. Busy \subseteq Callers /\ Busy' = Busy
  BY <1>1, Zenon DEF Busy
<1>3. Typed'
  BY <1>1, <1>2, Zenon DEF IInv, Typed
<1>4. Stages'
  BY <1>1, Zenon DEF IInv, Stages
<1>5. Owned' /\ Timely'
  BY <1>1, Frames, Zenon
<1>6. Bounded'
  <2>1. Busy \subseteq inFlight /\ Cardinality(live) <= Cardinality(inFlight)
    BY <1>1, Zenon DEF IInv, Bounded
  <2>2. inFlight' = inFlight
    BY <1>1, <2>1, Zenon
  <2>3. ~devIo'
    BY <1>1, Zenon DEF IInv, Bounded
  <2> QED
    BY <1>1, <1>2, <2>1, <2>2, <2>3, Zenon DEF Bounded
<1>7. Tracked'
  BY <1>1, Zenon DEF IInv, Tracked
<1>8. Finite'
  BY <1>1, Zenon DEF IInv, Finite
<1> QED
  BY <1>3, <1>4, <1>5, <1>6, <1>7, <1>8 DEF IInv

-----------------------------------------------------------------------------
(* The invariants *)

\* Every step of the device, its callers and the kernel keeps the invariant.
LEMMA NextKeeps ==
    ASSUME IInv, [Next]_vars
    PROVE  IInv'
<1>1. CASE UNCHANGED vars
  <2>1. /\ UNCHANGED <<call, pool, live, signalled, orphans, timedOut, early>>
        /\ UNCHANGED <<setup, macAddr, adapter, unsure, h, closing, inFlight, devIo>>
        /\ UNCHANGED <<config, configuredIP, addresses, undeleted, raced>>
    BY <1>1, Zenon DEF vars, create, handle, refs, link, io, notes
  <2>2. Typed' /\ Finite'
    BY <2>1, Zenon DEF IInv, Typed, Finite
  <2>3. Stages' /\ Owned' /\ Timely' /\ Bounded' /\ Tracked'
    BY <2>1, Frames, Zenon
  <2> QED
    BY <2>2, <2>3, Zenon DEF IInv
<1>2. CASE Create \/ Apply \/ CloseStart \/ Close \/ CompleteOrphan
  <2>1. CASE Close
    BY <2>1, PlatformKeeps, CancelKeeps, HandleKeeps, EventsKeeps, ForgetKeeps DEF Close
  <2> QED
    BY <1>2, <2>1, CreateKeeps, PlatformKeeps, OrphanKeeps, Zenon
<1>3. CASE DeletePrevious \/ SetIPAddress \/ \E ip \in IPs : Configure(ip)
  BY <1>3, ConfigKeeps, Zenon
<1>4. ASSUME NEW p \in Callers, Enter(p) \/ Complete(p) \/ Timeout(p) \/ Proceed(p)
      PROVE  IInv'
  <2>1. CASE Enter(p)
    BY <2>1, EnterKeeps, Zenon
  <2>2. CASE GetEvent(p)
    BY <2>2, PooledKeeps, CreatedKeeps, Zenon
  <2>3. CASE PutEvent(p)
    BY <2>3, PutEventKeeps
  <2>4. CASE Deref(p) \/ Issue(p) \/ Complete(p) \/ Await(p) \/ Timeout(p)
    BY <2>4, RequestKeeps, Zenon
  <2> QED
    BY <1>4, <2>1, <2>2, <2>3, <2>4, Zenon DEF Proceed
<1> QED
  BY <1>1, <1>2, <1>3, <1>4, Zenon DEF Next, Ended

\* The inductive invariant holds in every reachable state.
LEMMA AlwaysIInv == Spec => []IInv
<1>1. IInv /\ [Next]_vars => IInv'
  BY NextKeeps, Zenon
<1> QED
  BY InitInv, <1>1, PTL DEF Spec

\* Whatever Reads, Writes, completions and Close run at a time, an event serves
\* one call or lies in the pool once, and is never one that was closed; and
\* unless a deadline passed, a call returns only after its request is complete
\* (Handle.getEvent, putEvent, asyncIo and Close).
THEOREM CallsAlwaysOwnTheirRequests == Spec => []CallsOwnTheirRequests
<1>1. IInv => CallsOwnTheirRequests
  <2> SUFFICES ASSUME IInv PROVE CallsOwnTheirRequests
    BY Zenon
  <2>1. Owned /\ Timely
    BY Zenon DEF IInv
  <2> QED
    BY <2>1, Zenon DEF Owned, Timely, CallsOwnTheirRequests
<1> QED
  BY AlwaysIInv, <1>1, PTL

\* What Close leaves open is at most one event for each call it overtook, and
\* the file is closed; a Create that failed leaves nothing open (Handle.Close,
\* Device.Close, newDevice).
THEOREM NothingEverStaysOpen == Spec => []NothingStaysOpen
<1>1. IInv => NothingStaysOpen
  BY DEF IInv, Stages, Bounded, NothingStaysOpen
<1> QED
  BY AlwaysIInv, <1>1, PTL

\* Every address on the adapter is the one Close will delete, or one whose
\* deletion failed, unless ConfigureInterface ran during Close
\* (ConfigureInterface, closePlatform).
THEOREM AddressesAlwaysTracked == Spec => []AddressesTracked
<1>1. IInv => AddressesTracked
  BY Zenon DEF IInv, Tracked, AddressesTracked
<1> QED
  BY AlwaysIInv, <1>1, PTL

\* The MAC address the edge announces and puts into frames is the adapter's,
\* once the restart worked and the new address was confirmed
\* (findAndConfigureTapDevice, restartTapWindows, IfMac).
THEOREM MacAlwaysCurrent == Spec => []MacCurrent
<1>1. IInv => MacCurrent
  BY Zenon DEF IInv, Stages, MacCurrent
<1> QED
  BY AlwaysIInv, <1>1, PTL

====
