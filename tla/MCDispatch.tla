------------------------------- MODULE MCDispatch -------------------------------
(* Constants of the model check of Dispatch. *)
EXTENDS Dispatch

CONSTANTS s1, n1, j1

Caps(s, n, j) == [p \in Proc |-> CASE p = s1 -> s [] p = n1 -> n [] p = j1 -> j]
Under(q) == [n \in Nested |-> q]

\* One slot for all three; two caps side by side; a counted call of an uncounted parent.
MCSetups ==
    {[cap |-> Caps(1, 1, 1), parent |-> Under(j1), calls |-> Proc],
     [cap |-> Caps(1, 2, 1), parent |-> Under(s1), calls |-> {s1, n1}],
     [cap |-> Caps(0, 1, 1), parent |-> Under(s1), calls |-> {s1, n1}]}

================================================================================
