---------------------------- MODULE ExclusiveConsumer ----------------------------
(***************************************************************************)
(* What the peer mailbox promises about who may consume a member's         *)
(* messages, with neither rows, tokens nor memory: each member has at most *)
(* one serving process, a process that loses the member to another one is  *)
(* spent, and a spent process never serves the member again.  The promise  *)
(* is the one src/trw_mcp/comms/_endpoints.py states in its head comment   *)
(* ("a stale process can never take the endpoint back (no ping-pong)");    *)
(* Endpoints implements it.                                                *)
(***************************************************************************)
CONSTANTS
    Member,     \* members of one formation
    Process,    \* serving processes (MCP servers)
    MemberOf,   \* the member each process is bound to by its run path and pin
    Nobody      \* no process serves the member


VARIABLES
    holder,     \* [Member -> Process \cup {Nobody}]
    spent       \* the processes that lost their member to another process

vars == <<holder, spent>>

Init ==
    /\ holder = [m \in Member |-> Nobody]
    /\ spent = {}

\* A process that was never overtaken takes its member, whoever serves it now.
Take(p) ==
    /\ p \notin spent
    /\ holder' = [holder EXCEPT ![MemberOf[p]] = p]
    /\ spent' = spent \cup ({holder[MemberOf[p]]} \ {p, Nobody})

\* A restarted process is a new one: it serves nothing and is not spent.
Reset(p) ==
    /\ holder' = [m \in Member |-> IF holder[m] = p THEN Nobody ELSE holder[m]]
    /\ spent' = spent \ {p}

Next == \E p \in Process : Take(p) \/ Reset(p)

Spec == Init /\ [][Next]_vars

================================================================================
