------------------------- MODULE MCEdgeRegistration -------------------------
(* Instances of EdgeRegistration for TLC. *)
EXTENDS EdgeRegistration

\* The recovery of an edge on UDP.
UdpSpec == FairSpec /\ ~wss

=============================================================================
