------------------------------- MODULE MCMailbox -------------------------------
(* Constants of the model checks of Mailbox. *)
EXTENDS Mailbox, TLC

CONSTANTS mA, mB, mC, pA, pB1, pB2, pC

\* One process of member mA and of member mC; member mB has a second one, as after a
\* reconnect.
MCMemberOf == [p \in Process |-> CASE p = pA -> mA [] p = pC -> mC [] OTHER -> mB]

\* All members joined, or only the first one so far.
AllJoined == [m \in Member |-> "eligible"]
FirstJoined == [m \in Member |-> IF m = mA THEN "eligible" ELSE "waiting"]

\* Where only mA sends, the receivers with their processes can be exchanged, and the keys.
SwapReceivers == [v \in {mB, mC, pB1, pC} |->
    CASE v = mB -> mC [] v = mC -> mB [] v = pB1 -> pC [] v = pC -> pB1]
LimitSymmetry == Permutations(Key) \cup {SwapReceivers @@ k : k \in Permutations(Key)}
================================================================================
