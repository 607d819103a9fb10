---------------------------- MODULE MCLearnJournal ----------------------------
(* Constants of the model checks of LearnJournal. *)
EXTENDS LearnJournal

CONSTANTS w1, w2, p1, p2

\* A drain in each process; the process of the first one made the original calls.
MCProcOf == [a \in Actor |-> IF a = w2 THEN p2 ELSE p1]

\* Both drains in one process, as when the background sweep overlaps the next inline one.
OneProcess == [a \in Actor |-> p1]
================================================================================
