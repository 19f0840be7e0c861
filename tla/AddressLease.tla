---------------------------- MODULE AddressLease ----------------------------
(***************************************************************************)
(* What the supernode promises about virtual IP addresses: a MAC address    *)
(* is leased one address for ever, no two MAC addresses are leased the same *)
(* one, and what the supernode shows of an edge is the lease of its own MAC *)
(* address, however often the edge registers, expires and comes back, and   *)
(* however often the supernode is restarted.                                *)
(***************************************************************************)

CONSTANTS
    Macs,   \* MAC addresses
    VIPs,   \* the virtual IP addresses of the pool
    None    \* no lease

VARIABLES
    lease,  \* MAC address -> virtual IP address or None
    held    \* MAC address -> virtual IP addresses that are in use for it

Init ==
    /\ lease = [m \in Macs |-> None]
    /\ held = [m \in Macs |-> {}]

\* A new lease: an address that nobody has.
Grant(m) ==
    /\ lease[m] = None
    /\ \E v \in VIPs : /\ \A n \in Macs : lease[n] # v
                       /\ lease' = [lease EXCEPT ![m] = v]

\* One MAC address begins to use its lease, the one it has or a new one; others
\* may cease to use theirs.
Register(m) ==
    /\ Grant(m) \/ (lease[m] # None /\ UNCHANGED lease)
    /\ held' \in [Macs -> SUBSET VIPs]
    /\ held'[m] \subseteq held[m] \cup {lease'[m]}
    /\ \A n \in Macs \ {m} : held'[n] \subseteq held[n]

\* Addresses are no longer in use; the leases stay.
Forget ==
    /\ UNCHANGED lease
    /\ held' \in [Macs -> SUBSET VIPs]
    /\ \A n \in Macs : held'[n] \subseteq held[n]

Next == Forget \/ \E m \in Macs : Register(m)

Spec == Init /\ [][Next]_<<lease, held>>

=============================================================================
