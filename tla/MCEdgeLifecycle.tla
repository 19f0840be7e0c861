-------------------------- MODULE MCEdgeLifecycle ---------------------------
(* Instances of EdgeLifecycle for TLC. *)
EXTENDS EdgeLifecycle

=============================================================================
