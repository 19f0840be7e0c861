----------------------------- MODULE MCTapDevice -----------------------------
(* Small instances of TapDevice. *)
EXTENDS TapDevice

\* Many calls of Read and Write, or many of ConfigureInterface.
MCBudgets == {[calls |-> 3, config |-> 0], [calls |-> 1, config |-> 1],
              [calls |-> 0, config |-> 4]}

=============================================================================
