------------------------------ MODULE MCEndpoints ------------------------------
(* Constants of the model checks of Endpoints. *)
EXTENDS Endpoints, TLC

CONSTANTS mA, mB, pA1, pA2, pB

\* Two processes of one member (a client reconnected) and one of another member.
MCMemberOf == (pA1 :> mA) @@ (pA2 :> mA) @@ (pB :> mB)
================================================================================
