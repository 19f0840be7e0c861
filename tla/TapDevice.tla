------------------------------ MODULE TapDevice ------------------------------
(***************************************************************************)
(* The TAP device of an edge on Windows: Create (registry, restart of the   *)
(* adapter, CreateFile, media status), IfMac, ConfigureInterface, the       *)
(* overlapped reads and writes of Handle with their pool of events, and     *)
(* Close, each in the steps between which other goroutines may run.  The    *)
(* adapter and the kernel's side of an I/O request are external.            *)
(***************************************************************************)
EXTENDS Naturals, Sequences, FiniteSets

CONSTANTS
    Callers,       \* goroutines that call Read or Write
    Events,        \* event handles the system may give out
    IPs,           \* addresses of the interface (CIDR)
    MaxAttempts,   \* lookups that wait for the new MAC address
    Budgets,       \* bounds on the calls of Read or Write and of ConfigureInterface
    None

ASSUME TapAssumption ==
    /\ MaxAttempts \in Nat \ {0} /\ Budgets \subseteq [calls : Nat, config : Nat]
    /\ IsFiniteSet(Callers)
    /\ None \notin Events \cup IPs

VARIABLES
    \* Create
    setup,         \* the step of NewEdgeClient in Create and IfMac
    attempts,
    macAddr,       \* Device.macAddr: "old" (burned in) or "new" (requested)
    adapter,       \* [mac, enabled, restarted] (external)
    unsure,        \* the new MAC address could not be confirmed
    \* Handle, Device and Interface
    h,             \* the file handle: "none", "open" or "closed"
    pool,          \* f.e
    iface, devIo,  \* not nil
    configuredIP,
    \* the system
    live,          \* event handles that exist
    signalled,     \* events that are signalled
    addresses,     \* addresses on the adapter
    \* goroutines
    call,          \* what each caller is doing
    orphans,       \* requests whose call has returned: <<caller, event>>
    closing,       \* the step of Close
    config,        \* the call of ConfigureInterface
    budget,        \* calls that may still be made
    \* history
    inFlight,      \* events in use when Close emptied the pool
    late,          \* callers that made a request between CancelIoEx and CloseHandle
    undeleted,     \* addresses whose deletion failed
    raced,         \* ConfigureInterface ran during Close
    timedOut,      \* a call returned because its deadline passed
    early,         \* a call returned before its request was complete
    panicked

create == <<setup, attempts, macAddr, adapter, unsure>>
handle == <<h, pool, live, signalled>>
refs == <<iface, devIo>>
link == <<configuredIP, addresses, undeleted, raced, config>>
io == <<call, orphans>>
notes == <<inFlight, late, timedOut, early, panicked>>
vars == <<create, handle, refs, link, io, closing, budget, notes>>

Idle == [at |-> "idle", event |-> None, io |-> "none", deadline |-> FALSE]
NoConfig == [at |-> "idle", ip |-> None]

Init ==
    /\ setup = "find" /\ attempts = 0 /\ macAddr = None /\ unsure = FALSE
    /\ adapter = [mac |-> "old", enabled |-> TRUE, restarted |-> FALSE]
    /\ h = "none" /\ pool = <<>> /\ live = {} /\ signalled = {}
    /\ iface = FALSE /\ devIo = FALSE
    /\ configuredIP = None /\ addresses = {} /\ undeleted = {} /\ raced = FALSE
    /\ config = NoConfig
    /\ call = [p \in Callers |-> Idle] /\ orphans = {}
    /\ closing = "no"
    /\ budget \in Budgets
    /\ inFlight = {} /\ late = {} /\ timedOut = FALSE /\ early = FALSE
    /\ panicked = FALSE

-----------------------------------------------------------------------------
(* Create and IfMac *)

Setup(from, to) == setup = from /\ setup' = to
CreateOnly == UNCHANGED <<handle, refs, link, io, closing, budget, notes>>

\* findAndConfigureTapDevice finds the adapter, its MAC address, and writes
\* the requested one to the registry.
Find ==
    /\ \/ Setup("find", "disable") /\ macAddr' = adapter.mac
       \/ Setup("find", "failed") /\ UNCHANGED macAddr
    /\ UNCHANGED <<attempts, adapter, unsure>>
    /\ CreateOnly

\* restartTapWindows disables the adapter and enables it again; an error is
\* only logged.
Disable ==
    /\ \/ Setup("disable", "enable") /\ adapter' = [adapter EXCEPT !.enabled = FALSE]
       \/ Setup("disable", "open") /\ UNCHANGED adapter
    /\ UNCHANGED <<attempts, macAddr, unsure>>
    /\ CreateOnly

Enable ==
    /\ \/ Setup("enable", "refresh")
          /\ adapter' = [adapter EXCEPT !.enabled = TRUE, !.restarted = TRUE]
       \/ Setup("enable", "open") /\ UNCHANGED adapter
    /\ UNCHANGED <<attempts, macAddr, unsure>>
    /\ CreateOnly

\* Some time after a restart the driver uses the address of the registry.
Apply ==
    /\ adapter.restarted /\ adapter.mac = "old"
    /\ adapter' = [adapter EXCEPT !.mac = "new"]
    /\ UNCHANGED <<setup, attempts, macAddr, unsure, handle, refs, link, io, closing,
                   budget, notes>>

\* Mutant of Refresh: the first lookup that works is taken.
MutRefresh ==
    /\ setup = "refresh"
    /\ setup' = "open" /\ macAddr' = adapter.mac /\ UNCHANGED <<attempts, unsure>>
    /\ UNCHANGED adapter
    /\ CreateOnly

\* The adapter is looked up until it has the new address; after the last
\* lookup the new address is assumed.
Refresh ==
    /\ setup = "refresh"
    /\ \/ /\ attempts < MaxAttempts /\ adapter.mac = "new"
          /\ setup' = "open" /\ macAddr' = "new" /\ attempts' = 0 /\ UNCHANGED unsure
       \/ /\ attempts < MaxAttempts
          /\ attempts' = attempts + 1 /\ UNCHANGED <<setup, macAddr, unsure>>
       \/ /\ attempts = MaxAttempts
          /\ setup' = "open" /\ macAddr' = "new" /\ unsure' = TRUE
          /\ attempts' = 0
    /\ UNCHANGED adapter
    /\ CreateOnly

\* CreateFile; a disabled adapter cannot be opened.
Open ==
    /\ \/ adapter.enabled /\ Setup("open", "media") /\ h' = "open"
       \/ Setup("open", "failed") /\ UNCHANGED h
    /\ UNCHANGED <<attempts, macAddr, adapter, unsure, pool, live, signalled, refs,
                   link, io, closing, budget, notes>>

\* TAP_IOCTL_SET_MEDIA_STATUS, and the Device and Interface objects.
SetMediaStatus ==
    /\ \/ /\ Setup("media", "mac") /\ iface' = TRUE /\ devIo' = TRUE
          /\ UNCHANGED h
       \/ /\ Setup("media", "failed") /\ h' = "closed" /\ UNCHANGED refs
    /\ UNCHANGED <<attempts, macAddr, adapter, unsure, pool, live, signalled, link, io,
                   closing, budget, notes>>

\* IfMac asks for the new address once more; what fails is only logged, and
\* macAddr is not read again.
IfMac ==
    /\ Setup("mac", "ready")
    /\ \/ adapter' = [adapter EXCEPT !.mac = "new"]
       \/ UNCHANGED adapter
    /\ UNCHANGED <<attempts, macAddr, unsure>>
    /\ CreateOnly

-----------------------------------------------------------------------------
(* Reads and writes *)

Does(p, what) == call' = [call EXCEPT ![p] = what]
CallOnly == UNCHANGED <<create, refs, link, closing>>

\* Interface.Read and Device.Read test for nil ...
Enter(p) ==
    /\ setup = "ready" /\ call[p] = Idle /\ iface /\ devIo
    /\ budget.calls > 0
    /\ budget' = [budget EXCEPT !.calls = @ - 1]
    /\ \E d \in BOOLEAN : Does(p, [Idle EXCEPT !.at = "tested", !.deadline = d])
    /\ inFlight' = IF closing = "dev" THEN inFlight \cup {p} ELSE inFlight
    /\ CallOnly
    /\ UNCHANGED <<handle, orphans, late, timedOut, early, panicked>>

\* ... and then use what they tested.
Deref(p) ==
    /\ call[p].at = "tested"
    /\ panicked' = ~(iface /\ devIo)
    /\ Does(p, [call[p] EXCEPT !.at = "event"])
    /\ CallOnly
    /\ UNCHANGED <<handle, orphans, budget, inFlight, late, timedOut, early>>

\* getEvent takes the last event of the pool or creates one.
GetEvent(p) ==
    /\ call[p].at = "event"
    /\ \/ /\ pool # <<>>
          /\ Does(p, [call[p] EXCEPT !.at = "issue", !.event = pool[Len(pool)]])
          /\ pool' = SubSeq(pool, 1, Len(pool) - 1)
          /\ UNCHANGED live
       \/ /\ pool = <<>> /\ Events # live
          /\ LET e == CHOOSE f \in Events \ live : TRUE IN
             /\ Does(p, [call[p] EXCEPT !.at = "issue", !.event = e])
             /\ live' = live \cup {e}
          /\ UNCHANGED pool
       \/ /\ pool = <<>>
          /\ Does(p, Idle)   \* CreateEvent fails
          /\ UNCHANGED <<pool, live>>
    /\ CallOnly
    /\ UNCHANGED <<h, signalled, orphans, budget, notes>>

\* ReadFile or WriteFile: done or refused at once, or pending.
Issue(p) ==
    /\ call[p].at = "issue"
    /\ \/ /\ h = "open"
          /\ Does(p, [call[p] EXCEPT !.at = "wait", !.io = "pending"])
          /\ late' = IF closing = "handle" THEN late \cup {p} ELSE late
       \/ /\ Does(p, [call[p] EXCEPT !.at = "put"])
          /\ UNCHANGED late
    /\ CallOnly
    /\ UNCHANGED <<handle, orphans, budget, inFlight, timedOut, early, panicked>>

\* The kernel completes a request, or its cancellation, and sets the event.
Complete(p) ==
    /\ call[p].io \in {"pending", "cancelled"}
    /\ Does(p, [call[p] EXCEPT !.io = "done"])
    /\ signalled' = signalled \cup {call[p].event}
    /\ CallOnly
    /\ UNCHANGED <<h, pool, live, orphans, budget, notes>>

CompleteOrphan ==
    /\ \E r \in orphans :
         /\ orphans' = orphans \ {r}
         /\ signalled' = signalled \cup ({r[2]} \cap live)
    /\ UNCHANGED <<create, h, pool, live, refs, link, call, closing, budget, notes>>

\* Mutant of Await: a call without a deadline returns ERROR_IO_PENDING.
MutAwait(p) ==
    /\ call[p].at = "wait"
    /\ \/ call[p].event \in signalled \/ ~call[p].deadline
       \/ call[p].io = "done"
    /\ early' = (early \/ call[p].io # "done")
    /\ orphans' = IF call[p].io = "done" THEN orphans
                  ELSE orphans \cup {<<p, call[p].event>>}
    /\ Does(p, [call[p] EXCEPT !.at = "put", !.io = "none"])
    /\ CallOnly
    /\ UNCHANGED <<handle, budget, inFlight, late, timedOut, panicked>>

\* Without a deadline a wait that times out at once goes on in
\* GetOverlappedResult, so that the call waits for the event in any case.
Await(p) ==
    /\ call[p].at = "wait" /\ call[p].event \in signalled
    /\ early' = (early \/ call[p].io # "done")
    /\ orphans' = IF call[p].io = "done" THEN orphans
                  ELSE orphans \cup {<<p, call[p].event>>}
    /\ Does(p, [call[p] EXCEPT !.at = "put", !.io = "none"])
    /\ CallOnly
    /\ UNCHANGED <<handle, budget, inFlight, late, timedOut, panicked>>

\* The deadline passes: the request is cancelled, and the call returns at once.
Timeout(p) ==
    /\ call[p].at = "wait" /\ call[p].deadline /\ call[p].event \notin signalled
    /\ timedOut' = TRUE
    /\ orphans' = orphans \cup {<<p, call[p].event>>}
    /\ Does(p, [call[p] EXCEPT !.at = "put", !.io = "none"])
    /\ CallOnly
    /\ UNCHANGED <<handle, budget, inFlight, late, early, panicked>>

\* putEvent resets the event and puts it into the pool; the call returns.
PutEvent(p) ==
    /\ call[p].at = "put"
    /\ signalled' = signalled \ {call[p].event}
    /\ pool' = Append(pool, call[p].event)
    /\ Does(p, Idle)
    /\ CallOnly
    /\ UNCHANGED <<h, live, orphans, budget, notes>>

-----------------------------------------------------------------------------
(* ConfigureInterface *)

LinkOnly == UNCHANGED <<create, handle, refs, io, closing, notes>>

\* Mutant of Configure: the previous address is not deleted.
MutConfigure(ip) ==
    /\ setup = "ready" /\ iface /\ config = NoConfig /\ budget.config > 0
    /\ budget' = [budget EXCEPT !.config = @ - 1]
    /\ config' = [at |-> "set", ip |-> ip]
    /\ raced' = (raced \/ closing # "no")
    /\ LinkOnly
    /\ UNCHANGED <<configuredIP, addresses, undeleted>>

\* A previous address that differs is deleted first.
Configure(ip) ==
    /\ setup = "ready" /\ iface /\ config = NoConfig /\ budget.config > 0
    /\ budget' = [budget EXCEPT !.config = @ - 1]
    /\ config' = [at |-> IF configuredIP \in {None, ip} THEN "set" ELSE "delete", ip |-> ip]
    /\ raced' = (raced \/ closing # "no")
    /\ LinkOnly
    /\ UNCHANGED <<configuredIP, addresses, undeleted>>

\* deleteIPAddress; a failure is only logged.
Deletes(ip) ==
    \/ addresses' = addresses \ {ip} /\ undeleted' = undeleted \ {ip}
    \/ undeleted' = undeleted \cup ({ip} \cap addresses) /\ UNCHANGED addresses

DeletePrevious ==
    /\ config.at = "delete"
    /\ Deletes(configuredIP)
    /\ config' = [config EXCEPT !.at = "set"]
    /\ LinkOnly
    /\ UNCHANGED <<configuredIP, raced, budget>>

\* setIPAddress; configuredIP changes only when it succeeds.
SetIPAddress ==
    /\ config.at = "set"
    /\ \/ /\ addresses' = addresses \cup {config.ip}
          /\ undeleted' = undeleted \ {config.ip}
          /\ configuredIP' = config.ip
       \/ UNCHANGED <<addresses, undeleted, configuredIP>>
    /\ config' = NoConfig
    /\ LinkOnly
    /\ UNCHANGED <<raced, budget>>

-----------------------------------------------------------------------------
(* Close *)

Closes(from, to) == closing = from /\ closing' = to
Busy == {p \in Callers : call[p] # Idle}

CloseStart ==
    /\ setup = "ready" /\ iface
    /\ Closes("no", "platform")
    /\ raced' = (raced \/ config # NoConfig)
    /\ UNCHANGED <<create, handle, refs, configuredIP, addresses, undeleted, config, io,
                   budget, notes>>

\* closePlatform deletes the configured address.
ClosePlatform ==
    /\ Closes("platform", "cancel")
    /\ IF configuredIP = None THEN UNCHANGED <<addresses, undeleted>>
                              ELSE Deletes(configuredIP)
    /\ configuredIP' = None
    /\ UNCHANGED <<create, handle, refs, raced, config, io, budget, notes>>

\* Mutant of CancelIo: pending requests are not cancelled.
MutCancelIo ==
    /\ Closes("cancel", "handle")
    /\ UNCHANGED <<create, handle, refs, link, io, budget, notes>>

\* CancelIoEx for every request of the handle.
CancelIo ==
    /\ Closes("cancel", "handle")
    /\ call' = [p \in Callers |-> IF call[p].io = "pending"
                                  THEN [call[p] EXCEPT !.io = "cancelled"] ELSE call[p]]
    /\ UNCHANGED <<create, handle, refs, link, orphans, budget, notes>>

CloseHandle ==
    /\ Closes("handle", "events")
    /\ h' = "closed"
    /\ UNCHANGED <<create, pool, live, signalled, refs, link, io, budget, notes>>

\* Mutant of CloseEvents: the pool is cleared, its events are not closed.
MutCloseEvents ==
    /\ Closes("events", "dev")
    /\ pool' = <<>>
    /\ inFlight' = Busy
    /\ UNCHANGED <<create, h, live, signalled, refs, link, io, budget, late, timedOut,
                   early, panicked>>

\* The events of the pool are closed; those in use come back later.
CloseEvents ==
    /\ Closes("events", "dev")
    /\ live' = live \ {pool[i] : i \in DOMAIN pool}
    /\ signalled' = signalled \cap live'
    /\ pool' = <<>>
    /\ inFlight' = Busy
    /\ UNCHANGED <<create, h, refs, link, io, budget, late, timedOut, early, panicked>>

\* Device.Close and Interface.Close forget what they closed.  A call that
\* passed the tests for nil before is still on its way.
Forget ==
    /\ \/ Closes("dev", "iface") /\ devIo' = FALSE /\ UNCHANGED iface
       \/ Closes("iface", "closed") /\ iface' = FALSE /\ UNCHANGED devIo
    /\ inFlight' = inFlight \cup Busy
    /\ UNCHANGED <<create, handle, link, io, budget, late, timedOut, early, panicked>>

-----------------------------------------------------------------------------
Create == Find \/ Disable \/ Enable \/ Refresh \/ Open \/ SetMediaStatus \/ IfMac

Proceed(p) ==
    ~panicked /\ (Deref(p) \/ GetEvent(p) \/ Issue(p) \/ Await(p) \/ PutEvent(p))

Close == ClosePlatform \/ CancelIo \/ CloseHandle \/ CloseEvents \/ Forget

\* Nothing is left to do.
Ended ==
    /\ panicked \/ setup = "failed" \/ (closing = "closed" /\ Busy = {} /\ config = NoConfig)
    /\ UNCHANGED vars

Next ==
    \/ ~panicked /\ (Create \/ Apply \/ CloseStart \/ Close \/ CompleteOrphan)
    \/ ~panicked /\ (DeletePrevious \/ SetIPAddress \/ \E ip \in IPs : Configure(ip))
    \/ \E p \in Callers : ~panicked /\ (Enter(p) \/ Complete(p) \/ Timeout(p))
    \/ \E p \in Callers : Proceed(p)
    \/ Ended

Spec == Init /\ [][Next]_vars

\* Goroutines that can run do run, and the kernel completes the requests that
\* were cancelled.  No frame need ever come.
FairSpec ==
    /\ Spec
    /\ \A p \in Callers : WF_vars(Proceed(p))
    /\ \A p \in Callers : WF_vars(~panicked /\ call[p].io = "cancelled" /\ Complete(p))

-----------------------------------------------------------------------------
(* Properties *)

InUse(p) == call[p].event # None

\* Whatever calls, completions and Close do at a time, an event serves one call
\* or lies in the pool once, and is never one that was closed.  Unless a
\* deadline made a call give up its request (no code of the edge sets one), a
\* call of Read or Write returns after its request is complete, so that the
\* kernel never writes to a buffer that was given back, and a pooled event is
\* never signalled.
CallsOwnTheirRequests ==
    /\ \A p \in Callers : InUse(p) =>
         /\ call[p].event \in live
         /\ \A q \in Callers \ {p} : call[q].event # call[p].event
         /\ \A i \in DOMAIN pool : pool[i] # call[p].event
    /\ \A i, j \in DOMAIN pool : pool[i] = pool[j] => i = j
    /\ ~timedOut => /\ orphans = {} /\ ~early
                    /\ \A i \in DOMAIN pool : pool[i] \notin signalled

\* "Close cancels pending I/O, closes the wrapped handle, and releases
\* associated event handles": what stays open is at most one event for each
\* call that was under way when Close emptied the pool or came before devIo was
\* nil.  A Create that failed leaves no handle open.
NothingStaysOpen ==
    /\ setup = "failed" => h # "open"
    /\ closing = "closed" /\ Busy = {} =>
         h = "closed" /\ Cardinality(live) <= Cardinality(inFlight)

\* After Close every call returns, although the call may have been waiting for
\* a frame that never comes, unless it made its request between CancelIoEx and
\* CloseHandle.
CloseUnblocks ==
    \A p \in Callers :
      closing = "closed" ~> (call[p] = Idle \/ p \in late \/ panicked)

\* Every address that ConfigureInterface put on the adapter is the one Close
\* will delete, or its deletion failed, unless ConfigureInterface ran during
\* Close.
AddressesTracked == ~raced => addresses \subseteq {configuredIP} \cup undeleted

\* The MAC address that Interface.Write puts into frames, so that Windows
\* accepts them, is the adapter's, provided the restart of the adapter worked
\* and the new address was confirmed.  (IfMac may change the adapter later,
\* and macAddr is never read again.)
MacCurrent ==
    setup = "ready" /\ adapter.restarted /\ ~unsure => macAddr = adapter.mac

=============================================================================
