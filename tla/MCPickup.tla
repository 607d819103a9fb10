-------------------------------- MODULE MCPickup --------------------------------
(* Constants of the model checks of Pickup. *)
EXTENDS Pickup, TLC

CONSTANTS c1, c2

\* Every call is one of the first caller: calls of one run may be in flight together.
MCCallerOf == [k \in Call |-> c1]

================================================================================
