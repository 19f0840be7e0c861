------------------------- MODULE MCSupernodeRegistry -------------------------
(* Small instances of SupernodeRegistry. *)
EXTENDS SupernodeRegistry, TLC

CONSTANT h

\* All edges are in one community.
OneCommunity == [m \in Macs |-> h]

\* Any edge may be behind any address.
AnySockets == [m \in Macs |-> Addrs \cup Conns]

SymObjs == Permutations(Eobjs) \cup Permutations(Cobjs)
SymAll == SymObjs \cup Permutations(Macs) \cup Permutations(Addrs)
            \cup Permutations(VIPs)

=============================================================================
