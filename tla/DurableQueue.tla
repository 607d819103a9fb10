----------------------------- MODULE DurableQueue -----------------------------
(***************************************************************************)
(* What the learning journal promises (src/trw_mcp/state/learn_journal.py, *)
(* head comment): an accepted learning has a file on disk until it is      *)
(* settled - stored, or set aside for good - and a settled one stays so.   *)
(* A late writer may bring the file of a settled learning back, which only *)
(* makes more work.  LearnJournal implements it.                           *)
(***************************************************************************)
CONSTANT Id

VARIABLES
    owed,        \* learnings accepted and not settled
    settled,     \* learnings stored or set aside
    onDisk       \* learnings with a pending file

vars == <<owed, settled, onDisk>>

Init ==
    /\ owed = {}
    /\ settled = {}
    /\ onDisk = {}

\* A new learning is durable before anything else is done about it.
Accept(i) ==
    /\ i \notin owed \cup settled
    /\ owed' = owed \cup {i}
    /\ onDisk' = onDisk \cup {i}
    /\ UNCHANGED settled

Settle(i) ==
    /\ i \in owed
    /\ owed' = owed \ {i}
    /\ settled' = settled \cup {i}
    /\ UNCHANGED onDisk

\* Only a settled learning loses its file.
Forget(i) ==
    /\ i \in settled
    /\ onDisk' = onDisk \ {i}
    /\ UNCHANGED <<owed, settled>>

Recall(i) ==
    /\ i \in settled
    /\ onDisk' = onDisk \cup {i}
    /\ UNCHANGED <<owed, settled>>

Next == \E i \in Id : Accept(i) \/ Settle(i) \/ Forget(i) \/ Recall(i)

Spec == Init /\ [][Next]_vars

================================================================================
