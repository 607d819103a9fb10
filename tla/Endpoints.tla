------------------------------- MODULE Endpoints -------------------------------
(***************************************************************************)
(* Endpoint incarnations and consumer fencing of the peer mailbox          *)
(* (src/trw_mcp/comms/_endpoints.py and the enroll path of                 *)
(* src/trw_mcp/comms/__init__.py).                                         *)
(*                                                                         *)
(* The endpoints table holds one row per member.  A serving process keeps  *)
(* in memory the incarnation token it owns and whether it was displaced.   *)
(* An enrollment commits its row under the mailbox write lock and only     *)
(* THEN, outside the lock, publishes the token to the memory of its        *)
(* process: enrolling holds the tokens between the two steps.  Tool calls  *)
(* run on worker threads, so one process may have several in flight.       *)
(*                                                                         *)
(* Tokens are 16 random bytes: here the n-th draw is the number n, so a    *)
(* draw is never repeated.  Leases only advise a reader and are left out.  *)
(***************************************************************************)
EXTENDS Naturals, FiniteSets

CONSTANTS
    Member,        \* members of the formation
    Process,       \* serving processes
    MemberOf,      \* member each process is bound to (manifest run path and pin)
    Nobody,        \* stands for no process
    MaxCalls,      \* bound: enrollments of one process between commit and confirm
    MaxRestarts    \* bound: restarts of all the processes together

ASSUME MemberOfAssumption == MemberOf \in [Process -> Member]
ASSUME NobodyAssumption == Nobody \notin Process
ASSUME BoundAssumption == MaxCalls \in Nat /\ MaxRestarts \in Nat

VARIABLES
    endpoint,      \* [Member -> [inc, gen]]: the endpoints table
    mine,          \* [Process -> token]: _PROCESS_INCARNATIONS
    displaced,     \* processes that know they were displaced: _DISPLACED
    enrolling,     \* [Process -> tokens committed and not yet confirmed]
    minted,        \* how many tokens were drawn
    drawn,         \* history: the tokens each process drew since it started
    restarts       \* restarts so far, for the bound

memory == <<mine, displaced, enrolling>>
endpointVars == <<endpoint, mine, displaced, enrolling, minted, drawn, restarts>>

-----------------------------------------------------------------------------
(* The row and the memory of a process *)

\* No token: the table has no row, or the process owns no incarnation.
NoInc == 0

Row(p) == endpoint[MemberOf[p]]

HasRow(p) == Row(p).inc # NoInc

\* Seeded fault of IsDisplaced: the row is never looked at.
IsDisplaced_MemoryOnly(p) == p \in displaced

\* Seeded fault of IsDisplaced: a process that owns no incarnation is refused too.
IsDisplaced_NewcomerToo(p) ==
    \/ p \in displaced
    \/ HasRow(p) /\ Row(p).inc # mine[p]

\* _is_displaced: already fenced, or the row shows another incarnation than ours.
IsDisplaced(p) ==
    \/ p \in displaced
    \/ HasRow(p) /\ mine[p] # NoInc /\ Row(p).inc # mine[p]

\* _held: the process holds the row of its member and may consume its messages.
Holds(p) == ~IsDisplaced(p) /\ HasRow(p) /\ mine[p] # NoInc

\* Seeded fault of Renewing: the test of the row is inverted.
Renewing_NoRow(p) == ~HasRow(p) /\ mine[p] # NoInc

\* enroll: a row and a token of our own (not displaced) make a renewal.
Renewing(p) == HasRow(p) /\ mine[p] # NoInc

-----------------------------------------------------------------------------
(* Operations *)

EndpointInit ==
    /\ endpoint = [m \in Member |-> [inc |-> NoInc, gen |-> 0]]
    /\ mine = [p \in Process |-> NoInc]
    /\ displaced = {}
    /\ enrolling = [p \in Process |-> {}]
    /\ minted = 0
    /\ drawn = [p \in Process |-> {}]
    /\ restarts = 0

\* An owning operation of a displaced process: refused, and remembered for good.
Fence(p) ==
    /\ IsDisplaced(p)
    /\ displaced' = displaced \cup {p}
    /\ UNCHANGED <<endpoint, mine, enrolling, minted, drawn, restarts>>

\* Seeded fault of EnrollInc: the token of the row is kept, whoever drew it.
EnrollInc_Inherits(p) == IF HasRow(p) THEN Row(p).inc ELSE minted + 1

\* The token an enrollment writes: its own when renewing, else a fresh draw.
EnrollInc(p) == IF Renewing(p) THEN mine[p] ELSE minted + 1

\* The generation it writes: only a take-over counts one more.
EnrollGen(p) == IF Renewing(p) THEN Row(p).gen ELSE Row(p).gen + 1

\* The transaction of an enrollment: the row is committed, the memory is not yet told.
Enroll(p) ==
    /\ ~IsDisplaced(p)
    /\ Cardinality(enrolling[p]) < MaxCalls
    /\ endpoint' = [endpoint EXCEPT ![MemberOf[p]] =
                       [inc |-> EnrollInc(p), gen |-> EnrollGen(p)]]
    /\ enrolling' = [enrolling EXCEPT ![p] = @ \cup {EnrollInc(p)}]
    /\ minted' = IF Renewing(p) THEN minted ELSE minted + 1
    /\ drawn' = [drawn EXCEPT ![p] = @ \cup {EnrollInc(p)}]
    /\ UNCHANGED <<mine, displaced, restarts>>

\* confirm_enrollment: the call publishes its token in memory, outside the lock.
Confirm(p, inc) ==
    /\ inc \in enrolling[p]
    /\ mine' = [mine EXCEPT ![p] = inc]
    /\ enrolling' = [enrolling EXCEPT ![p] = @ \ {inc}]
    /\ UNCHANGED <<endpoint, displaced, minted, drawn, restarts>>

\* The process ends and starts again: its memory is lost, the table is not.
Restart(p) ==
    /\ restarts < MaxRestarts
    /\ restarts' = restarts + 1
    /\ mine' = [mine EXCEPT ![p] = NoInc]
    /\ displaced' = displaced \ {p}
    /\ enrolling' = [enrolling EXCEPT ![p] = {}]
    /\ drawn' = [drawn EXCEPT ![p] = {}]
    /\ UNCHANGED <<endpoint, minted>>

ConfirmAny(p) == \E inc \in enrolling[p] : Confirm(p, inc)

EndpointNext ==
    \E p \in Process :
        \/ Fence(p)
        \/ Enroll(p)
        \/ ConfirmAny(p)
        \/ Restart(p)

EndpointSpec == EndpointInit /\ [][EndpointNext]_endpointVars

-----------------------------------------------------------------------------
(* Properties *)

\* Types of the table and of the memories.
EndpointTypeOK ==
    /\ endpoint \in [Member -> [inc : Nat, gen : Nat]]
    /\ mine \in [Process -> Nat]
    /\ displaced \in SUBSET Process
    /\ enrolling \in [Process -> SUBSET Nat]
    /\ minted \in Nat
    /\ drawn \in [Process -> SUBSET Nat]
    /\ restarts \in Nat

\* At most one process can pass the fence of a member at any time, so no two
\* processes fetch or acknowledge the same member's messages (_held, FR12).
AtMostOneConsumer ==
    \A p, q \in Process :
        MemberOf[p] = MemberOf[q] /\ Holds(p) /\ Holds(q) => p = q

\* A process drew a token and the row of its member no longer carries one of its own.
Overtaken(p) == drawn[p] # {} /\ Row(p).inc \notin drawn[p]

\* No ping-pong: an overtaken process stays overtaken until it restarts, whether or
\* not it has noticed yet (_assert_not_displaced).
NoPingPong ==
    [][\A p \in Process :
          Overtaken(p) /\ drawn[p] \subseteq drawn'[p] => Overtaken(p)']_endpointVars

\* A process is fenced only because ANOTHER process took its endpoint over, as the
\* comment on _DISPLACED says ("was taken over by another process").
DisplacedByAnother ==
    \A p \in displaced : Row(p).inc \notin drawn[p]

\* Every member that has a serving process ends up with one process that holds it for
\* good: take-overs die out instead of handing the endpoint back and forth for ever.
ConsumerSettles ==
    \A m \in {MemberOf[p] : p \in Process} :
        <>[](\E p \in Process : MemberOf[p] = m /\ Holds(p))

-----------------------------------------------------------------------------
(* Refinement: the table and the memories implement ExclusiveConsumer *)

\* The process whose token the row carries.
HolderOf(m) ==
    IF \E p \in Process : MemberOf[p] = m /\ endpoint[m].inc \in drawn[p]
    THEN CHOOSE p \in Process : MemberOf[p] = m /\ endpoint[m].inc \in drawn[p]
    ELSE Nobody

Consumer == INSTANCE ExclusiveConsumer WITH
    holder <- [m \in Member |-> HolderOf(m)],
    spent <- {p \in Process : Overtaken(p)}

\* The endpoint table with the memories of the processes behaves as an exclusive
\* consumer per member: every step takes the member, resets a process or changes nothing.
ImplementsExclusiveConsumer == Consumer!Spec

================================================================================
