--------------------------- MODULE MCPeerRegistry ---------------------------
(* Instances of PeerRegistry for TLC. *)
EXTENDS PeerRegistry

CONSTANTS s1, s2, v1

\* One peer that moves between two sockets.
MovingInfos == {[vip |-> v1, sock |-> s1], [vip |-> v1, sock |-> s2]}

\* One peer that goes over to WSS, without a socket, and comes back.
RoamingInfos == {[vip |-> v1, sock |-> s1], [vip |-> v1, sock |-> NilSock]}

=============================================================================
